---- MODULE Spec2Model ----
(***************************************************************************)
(* Model of the smurf-detect analytical core: the suspicion scorer         *)
(* (smurfingDetector), the temporal analyzer, the k-hop subgraph expander  *)
(* and the adaptive guard with its mutable pattern library.                *)
(*                                                                         *)
(* Numbers.  JavaScript numbers are modelled in fixed point:               *)
(*   - ages, counts and scores are integers;                               *)
(*   - Value_ETH, Fee_to_Value and the five numeric pattern features are   *)
(*     integers in units of 1/1000 ("milli");                              *)
(*   - a coefficient of variation is computed to two decimals, rounded     *)
(*     down (CVCenti), so a comparison CV < 0.05 is CVCenti < 5, exactly;  *)
(*   - a similarity is the achieved score in milli-points out of 100000;   *)
(*   - a pattern confidence is in units of 1/100.                          *)
(* Divisions that leave the grid round down.                               *)
(***************************************************************************)
EXTENDS Integers, Sequences, FiniteSets, TLC

VARIABLES
    transactions,   \* Index.tsx state: the loaded transaction list
    wallets,        \* Index.tsx state: the wallet map, in insertion order
    loaded,         \* whether loadData has run
    patterns,       \* heap of LaunderingPattern objects, by object reference
    arrays,         \* heap of pattern arrays, each a sequence of references
    libs,           \* heap of PatternLibrary objects
    patternLibrary, \* Index.tsx state: reference to the current library
    heldLibrary,    \* the reference passed to the last learning call
    now,            \* Date.now()
    lastCall,       \* the last core call and what it returned
    temporalHeatmap \* Index.tsx state: the heatmap cells

vars == <<transactions, wallets, loaded, patterns, arrays, libs,
          patternLibrary, heldLibrary, now, lastCall, temporalHeatmap>>

-----------------------------------------------------------------------------
(* Arithmetic and sequence helpers (Math.min, Math.max, Math.abs, reduce,   *)
(* Array.prototype.sort on numbers).                                        *)

Min(a, b) == IF a <= b THEN a ELSE b

Max(a, b) == IF a >= b THEN a ELSE b

Abs(a) == IF a < 0 THEN -a ELSE a

RECURSIVE SeqSum(_)
SeqSum(s) == IF s = <<>> THEN 0 ELSE Head(s) + SeqSum(Tail(s))

RECURSIVE Gcd(_, _)
Gcd(a, b) == IF b = 0 THEN a ELSE Gcd(b, a % b)

RECURSIVE SeqGcd(_)
SeqGcd(s) == IF s = <<>> THEN 0 ELSE Gcd(Head(s), SeqGcd(Tail(s)))

RECURSIVE InsertAsc(_, _)
InsertAsc(x, s) ==
    IF s = <<>> THEN <<x>>
    ELSE IF x < Head(s) THEN <<x>> \o s
    ELSE <<Head(s)>> \o InsertAsc(x, Tail(s))

RECURSIVE SortAsc(_)
SortAsc(s) == IF s = <<>> THEN <<>> ELSE InsertAsc(Head(s), SortAsc(Tail(s)))

Reverse(s) == [i \in 1..Len(s) |-> s[Len(s) + 1 - i]]

SortDesc(s) == Reverse(SortAsc(s))

RECURSIVE Dedup(_)
Dedup(s) ==
    IF s = <<>> THEN <<>>
    ELSE LET r == Dedup(SubSeq(s, 1, Len(s) - 1))
             x == s[Len(s)]
         IN IF \E i \in 1..Len(r) : r[i] = x THEN r ELSE Append(r, x)

Range(s) == {s[i] : i \in 1..Len(s)}

RECURSIVE ISqrtIn(_, _, _)
ISqrtIn(n, lo, hi) ==
    IF lo >= hi THEN lo
    ELSE LET mid == (lo + hi + 1) \div 2
         IN IF mid * mid <= n THEN ISqrtIn(n, mid, hi) ELSE ISqrtIn(n, lo, mid - 1)

ISqrt(n) == ISqrtIn(n, 0, Min(n, 46340))

RECURSIVE SeqMin(_)
SeqMin(s) == IF Len(s) = 1 THEN s[1] ELSE Min(Head(s), SeqMin(Tail(s)))

\* consecutive differences of a sequence of numbers
Gaps(times) == [i \in 1..(Len(times) - 1) |-> times[i + 1] - times[i]]

AbsGaps(times) == [i \in 1..(Len(times) - 1) |-> Abs(times[i + 1] - times[i])]

\* floor(100 * sqrt(population variance) / mean) for non-negative gaps with
\* a positive sum.  With n gaps of sum S and sum of squares Q the variance is
\* (n*Q - S*S)/(n*n) and the mean S/n, so CV = sqrt(n*Q - S*S)/S; the gaps are
\* first divided by their gcd, which leaves CV unchanged.
CVCenti(gaps) ==
    LET g  == SeqGcd(gaps)
        ng == [i \in 1..Len(gaps) |-> gaps[i] \div g]
        S  == SeqSum(ng)
        Q  == SeqSum([i \in 1..Len(ng) |-> ng[i] * ng[i]])
    IN ISqrt(10000 * (Len(ng) * Q - S * S)) \div S

-----------------------------------------------------------------------------
(* Program constants.                                                       *)

FAN_OUT_THRESHOLD == 5

FAN_IN_THRESHOLD == 5

\* 0.15, as a percentage
PEELING_VALUE_DECREASE == 15

TIME_CLUSTER_THRESHOLD == 60

\* 0.1, in hundredths
SUSPICIOUS_RHYTHM_VARIANCE == 10

\* 0.05, in hundredths
HIGHLY_SUSPICIOUS_RHYTHM_VARIANCE == 5

-----------------------------------------------------------------------------
(* Inputs: the transaction lists handed to the core.  A list is a shape     *)
(* (who sends to whom, in ledger order) with a value profile, an age        *)
(* profile and a fee/count profile laid over its rows.                      *)

\* largest fan of the small star-shaped ledgers
MaxStar == 6

\* fan-out of the large hub ledger
HubFan == 20

\* fan-out and fan-in of the two-sided hub ledger
BigHubFan == 10

AddrSeq ==
    <<"S", "A", "B", "C", "D", "E", "F", "G", "H", "I", "J", "K", "L",
      "M", "N", "O", "P", "Q", "R", "T", "U", "V", "W", "X", "Y", "Z">>

Transaction(i, from, to, value, age, fee, fromCount, toCount) ==
    [TxHash |-> i, From |-> from, To |-> to, Value_ETH |-> value,
     Age_seconds |-> age, Fee_to_Value |-> fee,
     From_tx_count |-> fromCount, To_tx_count |-> toCount,
     From_entity_type |-> IF from = "C" THEN "known_entity" ELSE "wallet_or_contract",
     To_entity_type |-> IF to = "C" THEN "known_entity" ELSE "wallet_or_contract"]

Chain == << <<"S", "A">>, <<"A", "B">>, <<"B", "C">> >>

StarOut(n) == [i \in 1..n |-> <<"S", AddrSeq[i + 1]>>]

\* S is funded by A, then fans out to n others
Funded(n) == << <<"A", "S">> >> \o [i \in 1..n |-> <<"S", AddrSeq[i + 2]>>]

\* n senders pay S, then S pays one more address
StarIn(n) == [i \in 1..n |-> <<AddrSeq[i + 1], "S">>] \o << <<"S", AddrSeq[n + 2]>> >>

\* S pays n addresses and is paid by n others, alternating
BigHub(n) ==
    [i \in 1..(2 * n) |->
        IF i % 2 = 1 THEN <<"S", AddrSeq[1 + (i + 1) \div 2]>>
        ELSE <<AddrSeq[1 + n + i \div 2], "S">>]

\* n senders pay S, which never sends
Sink(n) == [i \in 1..n |-> <<AddrSeq[i + 1], "S">>]

\* S pays the same counterparty n times
Repeat(n) == [i \in 1..n |-> <<"S", "A">>]

Shapes ==
    {Chain, BigHub(BigHubFan), StarOut(HubFan), Sink(MaxStar)}
    \cup {StarOut(n) : n \in 2..MaxStar}
    \cup {Funded(n) : n \in 4..MaxStar}
    \cup {StarIn(n) : n \in 4..MaxStar}
    \cup {Repeat(n) : n \in 2..MaxStar}

ValueProfiles == {"peel", "decay", "flat", "edge"}

ValueAt(vp, i) ==
    CASE vp = "peel"  -> <<9000, 2000, 10000, 8500>>[((i - 1) % 4) + 1]
      [] vp = "decay" -> 10000 - 300 * i
      [] vp = "flat"  -> 5000
      [] vp = "edge"  -> <<0, 10000, 8500, 0>>[((i - 1) % 4) + 1]

AgeProfiles == {"regular", "uneven", "burst", "sparse", "same", "slow", "mid", "rapid", "loose"}

AgeAt(ap, i) ==
    CASE ap = "regular" -> IF i <= 10 THEN 330 - 30 * i ELSE 30 * i
      [] ap = "uneven"  -> 110 * (i - 1) - (IF i % 2 = 0 THEN 10 ELSE 0)
      [] ap = "burst"   -> 2 * i
      [] ap = "sparse"  -> 100 * i + 900 * (i \div 4)
      [] ap = "same"    -> 50
      [] ap = "slow"    -> 600 * i
      [] ap = "mid"     -> 300 * i
      [] ap = "loose"   -> 115 * i + 15 * (i % 2)
      [] ap = "rapid"   -> <<0, 3, 6, 46, 80, 82>>[((i - 1) % 6) + 1] + 100 * ((i - 1) \div 6)

MetaProfiles == {"plain", "busy"}

FeeAt(mp, i) == IF mp = "busy" THEN 20 ELSE 5

FromCountAt(mp, i) == IF mp = "busy" THEN 600 ELSE 10 + i

ToCountAt(mp, i) == IF mp = "busy" THEN 150 ELSE i

MakeTxs(shape, vp, ap, mp) ==
    [i \in 1..Len(shape) |->
        Transaction(i, shape[i][1], shape[i][2], ValueAt(vp, i), AgeAt(ap, i),
                    FeeAt(mp, i), FromCountAt(mp, i), ToCountAt(mp, i))]

TxInputs ==
    {MakeTxs(sh, vp, ap, mp) :
        sh \in Shapes, vp \in ValueProfiles, ap \in AgeProfiles, mp \in MetaProfiles}

-----------------------------------------------------------------------------
(* Suspicion scorer: analyzeTransactions and classifyWalletRole.            *)

\* the number of transactions sent, counterparties repeated
OutCount_PerTransaction(address, txs) ==
    Cardinality({j \in 1..Len(txs) : txs[j].From = address})

\* first pass: outgoingEdges.get(address)?.size || 0
OutCount(address, txs) ==
    Cardinality({txs[i].To : i \in {j \in 1..Len(txs) : txs[j].From = address}})

\* first pass: incomingEdges.get(address)?.size || 0
InCount(address, txs) ==
    Cardinality({txs[i].From : i \in {j \in 1..Len(txs) : txs[j].To = address}})

\* the transactions a wallet sent or received
WalletTxs_Involved(address, txs) ==
    SelectSeq(txs, LAMBDA t : t.From = address \/ t.To = address)

\* first pass: transactionsByWallet.get(address) || []
WalletTxs(address, txs) == SelectSeq(txs, LAMBDA t : t.From = address)

\* first pass: the keys of walletMap in insertion order
WalletOrder(txs) ==
    Dedup([k \in 1..(2 * Len(txs)) |->
              IF k % 2 = 1 THEN txs[(k + 1) \div 2].From ELSE txs[k \div 2].To])

TotalSent(address, txs) ==
    SeqSum([i \in 1..Len(txs) |-> IF txs[i].From = address THEN txs[i].Value_ETH ELSE 0])

TotalReceived(address, txs) ==
    SeqSum([i \in 1..Len(txs) |-> IF txs[i].To = address THEN txs[i].Value_ETH ELSE 0])

RECURSIVE TxCountFold(_, _, _)
TxCountFold(address, txs, acc) ==
    IF txs = <<>> THEN acc
    ELSE LET t == Head(txs)
             a1 == IF t.From = address THEN Max(acc, t.From_tx_count) ELSE acc
             a2 == IF t.To = address THEN Max(a1, t.To_tx_count) ELSE a1
         IN TxCountFold(address, Tail(txs), a2)

EntityTypeAtCreation(address, txs) ==
    LET i == CHOOSE j \in 1..Len(txs) :
                 /\ txs[j].From = address \/ txs[j].To = address
                 /\ \A k \in 1..(j - 1) : txs[k].From # address /\ txs[k].To # address
    IN IF txs[i].From = address THEN txs[i].From_entity_type ELSE txs[i].To_entity_type

\* the peeling loop over the values sorted descending
RECURSIVE PeelingLoop(_, _)
PeelingLoop(values, i) ==
    IF i > Len(values) THEN 0
    ELSE (IF /\ values[i - 1] # 0
             /\ values[i - 1] - values[i] > 0
             /\ (values[i - 1] - values[i]) * 100 < PEELING_VALUE_DECREASE * values[i - 1]
          THEN 1 ELSE 0) + PeelingLoop(values, i + 1)

PeelingCount(walletTxs) ==
    IF Len(walletTxs) >= 3
    THEN PeelingLoop(SortDesc([i \in 1..Len(walletTxs) |-> walletTxs[i].Value_ETH]), 2)
    ELSE 0

TxTimes(walletTxs) == SortAsc([i \in 1..Len(walletTxs) |-> walletTxs[i].Age_seconds])

ClusterCount(txTimes) ==
    Cardinality({i \in 2..Len(txTimes) :
                    Abs(txTimes[i] - txTimes[i - 1]) < TIME_CLUSTER_THRESHOLD})

HighFeeCount(walletTxs) ==
    Cardinality({i \in 1..Len(walletTxs) : walletTxs[i].Fee_to_Value > 10})

\* Math.sqrt(variance) / (avgGap || 1) in hundredths: gaps of sum 0 are all 0
RhythmCV(gaps) == IF SeqSum(gaps) = 0 THEN 0 ELSE CVCenti(gaps)

\* the classification by CV alone, without the limits on the mean gap
RhythmClass_NoGapLimit(cv, gapSum, gapCount) ==
    IF cv < HIGHLY_SUSPICIOUS_RHYTHM_VARIANCE THEN "highly_suspicious"
    ELSE IF cv < SUSPICIOUS_RHYTHM_VARIANCE THEN "suspicious"
    ELSE "normal"

RhythmClass(cv, gapSum, gapCount) ==
    IF cv < HIGHLY_SUSPICIOUS_RHYTHM_VARIANCE /\ gapSum < 300 * gapCount
    THEN "highly_suspicious"
    ELSE IF cv < SUSPICIOUS_RHYTHM_VARIANCE /\ gapSum < 600 * gapCount
    THEN "suspicious"
    ELSE "normal"

\* the rhythm block: [rhythm, avg, bonus]; left at createEmptyWallet's values
\* when there are fewer than three transactions
Rhythm(txTimes) ==
    IF Len(txTimes) >= 3
    THEN LET gaps == Gaps(txTimes)
             cls  == RhythmClass(RhythmCV(gaps), SeqSum(gaps), Len(gaps))
         IN [rhythm |-> cls,
             avg    |-> (SeqSum(gaps) * 1000) \div Len(gaps),
             bonus  |-> IF cls = "highly_suspicious" THEN 20
                        ELSE IF cls = "suspicious" THEN 10 ELSE 0]
    ELSE [rhythm |-> "normal", avg |-> 0, bonus |-> 0]

\* the role rules with the peeling splitter rule tested first
classifyWalletRole_SplitterFirst(wallet, outCount, inCount) ==
    IF outCount >= FAN_OUT_THRESHOLD /\ wallet.isPeelingSource
    THEN "splitter"
    ELSE IF outCount >= FAN_OUT_THRESHOLD /\ inCount < FAN_IN_THRESHOLD /\ wallet.totalReceived > 0
    THEN "mule"
    ELSE IF inCount >= FAN_IN_THRESHOLD /\ outCount < FAN_OUT_THRESHOLD /\ wallet.totalSent > 0
    THEN "aggregator"
    ELSE IF outCount >= FAN_OUT_THRESHOLD /\ outCount > inCount * 2
    THEN "splitter"
    ELSE IF inCount >= FAN_IN_THRESHOLD /\ inCount > outCount * 2
    THEN "aggregator"
    ELSE "normal"

\* the role rules with a mule rule that only asks for received funds
classifyWalletRole_LooseMule(wallet, outCount, inCount) ==
    IF wallet.totalReceived > 0
    THEN "mule"
    ELSE IF inCount >= FAN_IN_THRESHOLD /\ outCount < FAN_OUT_THRESHOLD /\ wallet.totalSent > 0
    THEN "aggregator"
    ELSE IF outCount >= FAN_OUT_THRESHOLD /\ wallet.isPeelingSource
    THEN "splitter"
    ELSE IF outCount >= FAN_OUT_THRESHOLD /\ outCount > inCount * 2
    THEN "splitter"
    ELSE IF inCount >= FAN_IN_THRESHOLD /\ inCount > outCount * 2
    THEN "aggregator"
    ELSE "normal"

classifyWalletRole(wallet, outCount, inCount) ==
    IF outCount >= FAN_OUT_THRESHOLD /\ inCount < FAN_IN_THRESHOLD /\ wallet.totalReceived > 0
    THEN "mule"
    ELSE IF inCount >= FAN_IN_THRESHOLD /\ outCount < FAN_OUT_THRESHOLD /\ wallet.totalSent > 0
    THEN "aggregator"
    ELSE IF outCount >= FAN_OUT_THRESHOLD /\ wallet.isPeelingSource
    THEN "splitter"
    ELSE IF outCount >= FAN_OUT_THRESHOLD /\ outCount > inCount * 2
    THEN "splitter"
    ELSE IF inCount >= FAN_IN_THRESHOLD /\ inCount > outCount * 2
    THEN "aggregator"
    ELSE "normal"

FanOutPart(outCount) ==
    IF outCount >= FAN_OUT_THRESHOLD THEN Min(30, outCount * 3) ELSE 0

FanInPart(inCount) ==
    IF inCount >= FAN_IN_THRESHOLD THEN Min(30, inCount * 3) ELSE 0

\* the peeling contribution without its cap of 25
PeelingPart_Uncapped(peelingCount) ==
    IF peelingCount >= 2 THEN peelingCount * 5 ELSE 0

PeelingPart(peelingCount) ==
    IF peelingCount >= 2 THEN Min(25, peelingCount * 5) ELSE 0

\* a cluster counter that starts from the wallet map an earlier run left
ClusterPart_Carried(clusterCount) ==
    IF clusterCount + Len(wallets) >= 3
    THEN Min(20, (clusterCount + Len(wallets)) * 4) ELSE 0

ClusterPart(clusterCount) ==
    IF clusterCount >= 3 THEN Min(20, clusterCount * 4) ELSE 0

\* the fee contribution without its cap of 15
FeePart_Uncapped(highFeeCount) ==
    IF highFeeCount >= 2 THEN highFeeCount * 3 ELSE 0

FeePart(highFeeCount) ==
    IF highFeeCount >= 2 THEN Min(15, highFeeCount * 3) ELSE 0

VolumePart(txCount) ==
    IF txCount > 100 THEN Min(10, txCount \div 50) ELSE 0

\* the score sum without the final cap
FinalScore_Unclamped(score) == score

\* wallet.suspicionScore = Math.min(100, score)
FinalScore(score) == Min(100, score)

\* the reasons pushed, in the order of the detections
Reasons(outCount, inCount, peelingCount, clusterCount, highFeeCount, rhythm) ==
    (IF outCount >= FAN_OUT_THRESHOLD THEN <<"fan-out">> ELSE <<>>)
    \o (IF inCount >= FAN_IN_THRESHOLD THEN <<"fan-in">> ELSE <<>>)
    \o (IF peelingCount >= 2 THEN <<"peeling">> ELSE <<>>)
    \o (IF clusterCount >= 3 THEN <<"clustered">> ELSE <<>>)
    \o (IF highFeeCount >= 2 THEN <<"high-fee">> ELSE <<>>)
    \o (IF rhythm = "highly_suspicious" THEN <<"automated">>
        ELSE IF rhythm = "suspicious" THEN <<"regular-timing">> ELSE <<>>)

\* the second pass for one wallet of the map
ScoreWallet(address, txs) ==
    LET outCount     == OutCount(address, txs)
        inCount      == InCount(address, txs)
        walletTxs    == WalletTxs(address, txs)
        peelingCount == PeelingCount(walletTxs)
        txTimes      == TxTimes(walletTxs)
        clusterCount == ClusterCount(txTimes)
        highFeeCount == HighFeeCount(walletTxs)
        txCount      == TxCountFold(address, txs, 0)
        rhythm       == Rhythm(txTimes)
        score        == FanOutPart(outCount) + FanInPart(inCount)
                        + PeelingPart(peelingCount) + ClusterPart(clusterCount)
                        + FeePart(highFeeCount) + VolumePart(txCount) + rhythm.bonus
        w == [address |-> address,
              totalSent |-> TotalSent(address, txs),
              totalReceived |-> TotalReceived(address, txs),
              outgoingCount |-> Cardinality({i \in 1..Len(txs) : txs[i].From = address}),
              incomingCount |-> Cardinality({i \in 1..Len(txs) : txs[i].To = address}),
              suspicionScore |-> FinalScore(score),
              suspicionReasons |-> Reasons(outCount, inCount, peelingCount,
                                           clusterCount, highFeeCount, rhythm.rhythm),
              transactionRhythm |-> rhythm.rhythm,
              entityType |-> EntityTypeAtCreation(address, txs),
              avgTimeBetweenTx |-> rhythm.avg,
              participatesInFanOut |-> outCount >= FAN_OUT_THRESHOLD,
              participatesInFanIn |-> inCount >= FAN_IN_THRESHOLD,
              isPeelingSource |-> peelingCount >= 2,
              txCount |-> txCount,
              walletRole |-> "normal",
              temporalAttentionScore |-> 0,
              temporalPatterns |-> <<>>]
    IN [w EXCEPT !.walletRole = classifyWalletRole(w, outCount, inCount)]

\* the wallet map returned by analyzeTransactions, in insertion order
analyzeTransactions(txs) ==
    LET order == WalletOrder(txs)
    IN [k \in 1..Len(order) |-> ScoreWallet(order[k], txs)]

-----------------------------------------------------------------------------
(* Temporal analyzer: calculateTemporalAttentionScore and its detectors.    *)

BURST_THRESHOLD_SECONDS == 30

BURST_MIN_COUNT == 3

\* 0.15, in hundredths
PERIODIC_VARIANCE_THRESHOLD == 15

RAPID_SEQUENCE_THRESHOLD == 5

\* transactions.filter(tx => tx.From === address || tx.To === address)
InvolvedTxs(address, txs) ==
    SelectSeq(txs, LAMBDA t : t.From = address \/ t.To = address)

\* variant: the loop alone, without the check of the last burst
RECURSIVE BurstLoop_NoLastCheck(_, _, _, _, _)
BurstLoop_NoLastCheck(times, i, burstStart, burstCount, bursts) ==
    IF i > Len(times) THEN bursts
    ELSE IF Abs(times[i] - times[i - 1]) <= BURST_THRESHOLD_SECONDS
    THEN BurstLoop_NoLastCheck(times, i + 1, burstStart, burstCount + 1, bursts)
    ELSE BurstLoop_NoLastCheck(times, i + 1, i, 1,
                   IF burstCount >= BURST_MIN_COUNT
                   THEN Append(bursts, [start |-> times[burstStart],
                                        end |-> times[i - 1], count |-> burstCount])
                   ELSE bursts)

\* the loop of detectBursts from index i on, then the check of the last burst
RECURSIVE BurstLoop(_, _, _, _, _)
BurstLoop(times, i, burstStart, burstCount, bursts) ==
    IF i > Len(times)
    THEN IF burstCount >= BURST_MIN_COUNT
         THEN Append(bursts, [start |-> times[burstStart],
                              end |-> times[Len(times)], count |-> burstCount])
         ELSE bursts
    ELSE IF Abs(times[i] - times[i - 1]) <= BURST_THRESHOLD_SECONDS
    THEN BurstLoop(times, i + 1, burstStart, burstCount + 1, bursts)
    ELSE BurstLoop(times, i + 1, i, 1,
                   IF burstCount >= BURST_MIN_COUNT
                   THEN Append(bursts, [start |-> times[burstStart],
                                        end |-> times[i - 1], count |-> burstCount])
                   ELSE bursts)

detectBursts(times) == BurstLoop(times, 2, 1, 1, <<>>)

detectPeriodicity(times) ==
    IF Len(times) < 3 THEN 0
    ELSE LET gaps == AbsGaps(times)
         IN IF SeqSum(gaps) = 0 THEN 0
            ELSE LET cv == CVCenti(gaps)
                 IN IF cv < 5 THEN 25
                    ELSE IF cv < 10 THEN 15
                    ELSE IF cv < PERIODIC_VARIANCE_THRESHOLD THEN 8
                    ELSE 0

detectTimeConcentration(txs) ==
    LET hourOf(t) == (t.Age_seconds % 86400) \div 3600
        inBucket(h) == Cardinality({i \in 1..Len(txs) : hourOf(txs[i]) = h})
        maxInBucket == CHOOSE m \in {inBucket(h) : h \in 0..23} :
                           \A h \in 0..23 : inBucket(h) <= m
        totalTx == Len(txs)
    IN IF 10 * maxInBucket > 7 * totalTx THEN 15
       ELSE IF 10 * maxInBucket > 5 * totalTx THEN 10
       ELSE IF 10 * maxInBucket > 3 * totalTx THEN 5
       ELSE 0

detectRapidSequences(times) ==
    Cardinality({i \in 2..Len(times) :
                    Abs(times[i] - times[i - 1]) <= RAPID_SEQUENCE_THRESHOLD})

\* [...walletTxs].sort((a, b) => b.Age_seconds - a.Age_seconds): stable
RECURSIVE InsertByAge(_, _)
InsertByAge(tx, s) ==
    IF s = <<>> THEN <<tx>>
    ELSE IF tx.Age_seconds >= Head(s).Age_seconds THEN <<tx>> \o s
    ELSE <<Head(s)>> \o InsertByAge(tx, Tail(s))

RECURSIVE SortByAgeDesc(_)
SortByAgeDesc(s) == IF s = <<>> THEN <<>> ELSE InsertByAge(Head(s), SortByAgeDesc(Tail(s)))

\* the burst entries of getTemporalPatterns
BurstPatterns(sortedTxs, times) ==
    LET bursts == detectBursts(times)
    IN [b \in 1..Len(bursts) |->
           LET lo  == Min(bursts[b].start, bursts[b].end)
               hi  == Max(bursts[b].start, bursts[b].end)
               own == SelectSeq(sortedTxs, LAMBDA tx :
                                   tx.Age_seconds >= lo /\ tx.Age_seconds <= hi)
           IN [type |-> "burst",
               severity |-> IF bursts[b].count >= 5 THEN "high"
                            ELSE IF bursts[b].count >= 3 THEN "medium" ELSE "low",
               timeRange |-> [start |-> bursts[b].start, end |-> bursts[b].end],
               involvedTransactions |-> [i \in 1..Len(own) |-> own[i].TxHash]]]

\* the periodic entry of getTemporalPatterns, if any
PeriodicPatterns(sortedTxs, times) ==
    IF Len(times) < 3 THEN <<>>
    ELSE LET gaps == AbsGaps(times)
             cv   == IF SeqSum(gaps) = 0 THEN 0 ELSE CVCenti(gaps)
         IN IF cv < PERIODIC_VARIANCE_THRESHOLD /\ SeqSum(gaps) < 600 * Len(gaps)
            THEN << [type |-> "periodic",
                     severity |-> IF cv < 5 THEN "high"
                                  ELSE IF cv < 10 THEN "medium" ELSE "low",
                     timeRange |-> [start |-> SeqMin(times), end |-> times[1]],
                     involvedTransactions |->
                         [i \in 1..Len(sortedTxs) |-> sortedTxs[i].TxHash]] >>
            ELSE <<>>

\* the rapid-sequence loop of getTemporalPatterns from index i on; nothing
\* follows the loop
RECURSIVE RapidLoop(_, _, _, _, _, _)
RapidLoop(sortedTxs, times, i, rapidStart, rapidTxs, found) ==
    IF i > Len(times) THEN found
    ELSE IF Abs(times[i] - times[i - 1]) <= RAPID_SEQUENCE_THRESHOLD
    THEN RapidLoop(sortedTxs, times, i + 1,
                   IF rapidStart = -1 THEN times[i - 1] ELSE rapidStart,
                   Append(IF rapidStart = -1 THEN <<sortedTxs[i - 1].TxHash>> ELSE rapidTxs,
                          sortedTxs[i].TxHash),
                   found)
    ELSE IF Len(rapidTxs) >= 2
    THEN RapidLoop(sortedTxs, times, i + 1, -1, <<>>,
                   Append(found,
                          [type |-> "rapid_sequence",
                           severity |-> IF Len(rapidTxs) >= 5 THEN "high" ELSE "medium",
                           timeRange |-> [start |-> rapidStart, end |-> times[i - 1]],
                           involvedTransactions |-> rapidTxs]))
    ELSE RapidLoop(sortedTxs, times, i + 1, rapidStart, rapidTxs, found)

getTemporalPatterns(wallet, txs) ==
    LET walletTxs == InvolvedTxs(wallet.address, txs)
    IN IF Len(walletTxs) < 2 THEN <<>>
       ELSE LET sortedTxs == SortByAgeDesc(walletTxs)
                times     == [i \in 1..Len(sortedTxs) |-> sortedTxs[i].Age_seconds]
            IN BurstPatterns(sortedTxs, times)
               \o PeriodicPatterns(sortedTxs, times)
               \o RapidLoop(sortedTxs, times, 2, -1, <<>>, <<>>)

\* the cell index day * 24 + hour of an age: with d = age - minAge and
\* R = ageRange, totalHours = 168 * d / R, day = floor(totalHours / 24) % 7
\* and hour = floor(totalHours % 24)
HeatmapIndex(age, minAge, ageRange) ==
    LET d    == age - minAge
        day  == ((168 * d) \div (24 * ageRange)) % 7
        hour == ((168 * d) \div ageRange) % 24
    IN day * 24 + hour

\* generateTemporalHeatmap for a non-empty list: 7 x 24 cells in day-major
\* order, intensity in tenths
generateTemporalHeatmap(txs) ==
    LET ages     == [i \in 1..Len(txs) |-> txs[i].Age_seconds]
        minAge   == SeqMin(ages)
        maxAge   == -SeqMin([i \in 1..Len(ages) |-> -ages[i]])
        ageRange == IF maxAge - minAge = 0 THEN 1 ELSE maxAge - minAge
    IN [c \in 1..168 |->
           LET txCount == Cardinality({i \in 1..Len(txs) :
                              HeatmapIndex(ages[i], minAge, ageRange) = c - 1})
           IN [hour |-> (c - 1) % 24, day |-> (c - 1) \div 24,
               intensity |-> Min(10, txCount), txCount |-> txCount]]

\* Math.min(100, score) of the temporal score
TemporalFinal(score) == Min(100, score)

calculateTemporalAttentionScore(wallet, txs) ==
    LET walletTxs == InvolvedTxs(wallet.address, txs)
    IN IF Len(walletTxs) < 2 THEN 0
       ELSE LET times == SortDesc([i \in 1..Len(walletTxs) |-> walletTxs[i].Age_seconds])
            IN TemporalFinal(Min(30, Len(detectBursts(times)) * 10)
                             + detectPeriodicity(times)
                             + detectTimeConcentration(walletTxs)
                             + Min(20, detectRapidSequences(times) * 5))

-----------------------------------------------------------------------------
(* Adaptive guard: features, similarity and the per-wallet analysis.        *)

Features(fanOut, fanIn, time, value, rhythm, peeling, burst, lo, hi) ==
    [avgFanOut |-> fanOut, avgFanIn |-> fanIn, avgTimeBetweenTx |-> time,
     avgTxValue |-> value, rhythmVariance |-> rhythm,
     hasPeelingChain |-> peeling, hasRapidBurst |-> burst,
     txCountRange |-> [min |-> lo, max |-> hi]]

BuiltIn(id, name, features, confidence) ==
    [id |-> <<id, 0>>, name |-> name, createdAt |-> 0, updatedAt |-> 0,
     examples |-> <<>>, features |-> features, isBuiltIn |-> TRUE,
     confidence |-> confidence]

BUILT_IN_PATTERNS ==
    << BuiltIn("fan-out-classic", "Classic Fan-Out",
               Features(8000, 1000, 30000, 500, 100, FALSE, TRUE, 5, 50), 85),
       BuiltIn("fan-in-aggregation", "Fan-In Aggregation",
               Features(1000, 8000, 60000, 300, 150, FALSE, TRUE, 5, 100), 82),
       BuiltIn("peeling-chain", "Peeling Chain",
               Features(2000, 1000, 120000, 1000, 200, TRUE, FALSE, 3, 20), 88),
       BuiltIn("rapid-layering", "Rapid Layering",
               Features(3000, 2000, 15000, 800, 80, FALSE, TRUE, 10, 100), 90),
       BuiltIn("smurfing-classic", "Classic Smurfing",
               Features(10000, 1000, 45000, 100, 50, FALSE, TRUE, 10, 200), 92) >>

\* the references held by the module-level array BUILT_IN_PATTERNS
BuiltInRefs == [i \in 1..Len(BUILT_IN_PATTERNS) |-> i]

extractWalletFeatures(wallet, txs) ==
    LET walletTxs   == InvolvedTxs(wallet.address, txs)
        outgoingTxs == SelectSeq(walletTxs, LAMBDA t : t.From = wallet.address)
        incomingTxs == SelectSeq(walletTxs, LAMBDA t : t.To = wallet.address)
        uniqueRecipients == Cardinality({outgoingTxs[i].To : i \in 1..Len(outgoingTxs)})
        uniqueSenders    == Cardinality({incomingTxs[i].From : i \in 1..Len(incomingTxs)})
        avgValue == IF Len(walletTxs) > 0
                    THEN SeqSum([i \in 1..Len(walletTxs) |-> walletTxs[i].Value_ETH])
                         \div Len(walletTxs)
                    ELSE 0
        times == SortAsc([i \in 1..Len(walletTxs) |-> walletTxs[i].Age_seconds])
        gaps  == AbsGaps(times)
        rhythmVariance ==
            IF Len(times) >= 2 /\ SeqSum(gaps) > 0 THEN CVCenti(gaps) * 10 ELSE 1000
        hasRapidBurst == \E i \in 1..Len(gaps) : gaps[i] < 30
    IN Features(uniqueRecipients * 1000, uniqueSenders * 1000, wallet.avgTimeBetweenTx,
                avgValue, rhythmVariance, wallet.isPeelingSource, hasRapidBurst,
                Len(walletTxs), Len(walletTxs))

\* similarity is the achieved milli-points out of a maximum of 100000
calculateSimilarity(walletFeatures, patternFeatures) ==
    LET fanOutScore == Max(0, 20000 - Abs(walletFeatures.avgFanOut - patternFeatures.avgFanOut) * 2)
        fanInScore  == Max(0, 20000 - Abs(walletFeatures.avgFanIn - patternFeatures.avgFanIn) * 2)
        timeScore   == Max(0, 15000 - Abs(walletFeatures.avgTimeBetweenTx
                                          - patternFeatures.avgTimeBetweenTx) \div 10)
        valueScore  == Max(0, 10000 - Abs(walletFeatures.avgTxValue - patternFeatures.avgTxValue) * 5)
        rhythmScore == Max(0, 15000 - Abs(walletFeatures.rhythmVariance
                                          - patternFeatures.rhythmVariance) * 30)
        peelingSame == walletFeatures.hasPeelingChain = patternFeatures.hasPeelingChain
        burstSame   == walletFeatures.hasRapidBurst = patternFeatures.hasRapidBurst
    IN [similarity |->
            fanOutScore + fanInScore + timeScore + valueScore + rhythmScore
            + (IF peelingSame THEN 10000 ELSE 0) + (IF burstSame THEN 10000 ELSE 0),
        matchedFeatures |->
            (IF fanOutScore >= 15000 THEN <<"Fan-out pattern">> ELSE <<>>)
            \o (IF fanInScore >= 15000 THEN <<"Fan-in pattern">> ELSE <<>>)
            \o (IF timeScore >= 10000 THEN <<"Timing pattern">> ELSE <<>>)
            \o (IF valueScore >= 7000 THEN <<"Value pattern">> ELSE <<>>)
            \o (IF rhythmScore >= 10000 THEN <<"Rhythm regularity">> ELSE <<>>)
            \o (IF peelingSame /\ walletFeatures.hasPeelingChain THEN <<"Peeling chain">> ELSE <<>>)
            \o (IF burstSame /\ walletFeatures.hasRapidBurst THEN <<"Rapid burst">> ELSE <<>>)]

\* stable sort of the matches by similarity, descending
RECURSIVE InsertMatch(_, _)
InsertMatch(m, s) ==
    IF s = <<>> THEN <<m>>
    ELSE IF m.similarity >= Head(s).similarity THEN <<m>> \o s
    ELSE <<Head(s)>> \o InsertMatch(m, Tail(s))

RECURSIVE SortMatches(_)
SortMatches(s) == IF s = <<>> THEN <<>> ELSE InsertMatch(Head(s), SortMatches(Tail(s)))

\* a match test that leaves out a similarity of exactly 1
IsMatch_BelowOne(similarity) == similarity > 30000 /\ similarity < 100000

\* similarity > 0.3
IsMatch(similarity) == similarity > 30000

\* the forEach over allPatterns: the matches kept, in pattern order
MatchesOf(walletFeatures, allPatterns) ==
    LET all == [i \in 1..Len(allPatterns) |->
                   LET r == calculateSimilarity(walletFeatures, allPatterns[i].features)
                   IN [patternId |-> allPatterns[i].id,
                       patternName |-> allPatterns[i].name,
                       similarity |-> r.similarity,
                       matchedFeatures |-> r.matchedFeatures]]
    IN SelectSeq(all, LAMBDA m : IsMatch(m.similarity))

RECURSIVE MaxSimilarityOf(_)
MaxSimilarityOf(matched) ==
    IF matched = <<>> THEN 0
    ELSE Max(Head(matched).similarity, MaxSimilarityOf(Tail(matched)))

\* the overall score without the multiple-pattern bonus
OverallScore_NoBonus(suspicionScore, maxSimilarity, matchCount) ==
    Min(100, (2000 * suspicionScore + 3 * maxSimilarity + 2500) \div 5000)

\* Math.min(100, Math.round(suspicionScore * 0.4 + maxSimilarity * 60 + bonus)):
\* the sum in units of 1/5000, rounded half up
OverallScore(suspicionScore, maxSimilarity, matchCount) ==
    Min(100, (2000 * suspicionScore + 3 * maxSimilarity
              + (IF matchCount > 2 THEN 50000 ELSE 0) + 2500) \div 5000)

\* the zero-day test without the suspicion-score condition
IsZeroDay_AnyScore(suspicionScore, maxSimilarity) == maxSimilarity < 50000

\* wallet.suspicionScore >= 50 && maxSimilarity < 0.5
IsZeroDay(suspicionScore, maxSimilarity) ==
    suspicionScore >= 50 /\ maxSimilarity < 50000

ZeroDayReason ==
    "High suspicion but no strong pattern match - potential new laundering technique"

\* Math.min(1, 0.3 + n * 0.05 + m * 0.1), in hundredths
GuardConfidence(txCount, matchCount) == Min(100, 30 + txCount * 5 + matchCount * 10)

\* heap is the heap of pattern objects, libPatterns the library's pattern array
analyzeWalletWithAdaptiveGuard(wallet, txs, heap, libPatterns) ==
    LET walletFeatures == extractWalletFeatures(wallet, txs)
        userRefs    == SelectSeq(libPatterns, LAMBDA r : ~heap[r].isBuiltIn)
        allRefs     == BuiltInRefs \o userRefs
        allPatterns == [i \in 1..Len(allRefs) |-> heap[allRefs[i]]]
        kept        == MatchesOf(walletFeatures, allPatterns)
        maxSimilarity == MaxSimilarityOf(kept)
        zeroDay     == IsZeroDay(wallet.suspicionScore, maxSimilarity)
    IN [walletAddress |-> wallet.address,
        overallScore |-> OverallScore(wallet.suspicionScore, maxSimilarity, Len(kept)),
        confidence |-> GuardConfidence(Len(InvolvedTxs(wallet.address, txs)), Len(kept)),
        matchedPatterns |-> SortMatches(kept),
        isZeroDayCandidate |-> zeroDay,
        zeroDayReason |-> IF zeroDay THEN ZeroDayReason ELSE "undefined"]

-----------------------------------------------------------------------------
(* Pattern library: createPatternLibrary and addFlaggedExample over a heap  *)
(* of objects.  A reference is an index into patterns, arrays or libs.      *)

\* number of learning calls explored
MaxLearn == 2

\* the user selects among the first MaxSel wallets of the map
MaxSel == 2

\* latest value of Date.now() explored
MaxClock == 1

PatternNames == {"Classic Fan-Out", "Custom"}

NoCall == [op |-> "none"]

\* index of the first reference of arr whose pattern has the name, or 0
FindByName(heap, arr, name) ==
    IF \E i \in 1..Len(arr) : heap[arr[i]].name = name
    THEN CHOOSE i \in 1..Len(arr) :
             /\ heap[arr[i]].name = name
             /\ \A j \in 1..(i - 1) : heap[arr[j]].name # name
    ELSE 0

\* equal weights for the old value and the new one, whatever the count
Blend_Halves(old, new, numExamples) == (old + new) \div 2

\* old * (1 - weight) + new * weight with weight = 1 / numExamples
\* replacement of the old value instead of the weighted average
Blend_Replace(old, new, numExamples) == new

Blend(old, new, numExamples) == (old * (numExamples - 1) + new) \div numExamples

\* the raise without the cap at 0.95
RaisedConfidence_Uncapped(confidence) == confidence + 2

\* existingPattern.confidence = Math.min(0.95, confidence + 0.02)
RaisedConfidence(confidence) == Min(95, confidence + 2)

\* the existing-pattern branch: the pattern object after the update
UpdatedPattern(p, wallet, walletFeatures, t) ==
    LET examples    == Append(p.examples, [walletAddress |-> wallet.address, confirmedAt |-> t])
        numExamples == Len(examples)
        f           == p.features
    IN [p EXCEPT
          !.examples = examples,
          !.features =
              [avgFanOut |-> Blend(f.avgFanOut, walletFeatures.avgFanOut, numExamples),
               avgFanIn |-> Blend(f.avgFanIn, walletFeatures.avgFanIn, numExamples),
               avgTimeBetweenTx |-> Blend(f.avgTimeBetweenTx, walletFeatures.avgTimeBetweenTx, numExamples),
               avgTxValue |-> Blend(f.avgTxValue, walletFeatures.avgTxValue, numExamples),
               rhythmVariance |-> Blend(f.rhythmVariance, walletFeatures.rhythmVariance, numExamples),
               hasPeelingChain |-> f.hasPeelingChain \/ walletFeatures.hasPeelingChain,
               hasRapidBurst |-> f.hasRapidBurst \/ walletFeatures.hasRapidBurst,
               txCountRange |->
                   [min |-> Min(f.txCountRange.min, walletFeatures.txCountRange.min),
                    max |-> Max(f.txCountRange.max, walletFeatures.txCountRange.max)]],
          !.updatedAt = t,
          !.confidence = RaisedConfidence(p.confidence)]

\* the new-pattern branch: the pattern object created
\* a new pattern created with the confidence of an updated one
NewPattern_Raised(wallet, walletFeatures, patternName, t) ==
    [id |-> <<"user", t>>, name |-> patternName, createdAt |-> t, updatedAt |-> t,
     examples |-> <<[walletAddress |-> wallet.address, confirmedAt |-> t]>>,
     features |-> walletFeatures, isBuiltIn |-> FALSE, confidence |-> 52]

NewPattern(wallet, walletFeatures, patternName, t) ==
    [id |-> <<"user", t>>, name |-> patternName, createdAt |-> t, updatedAt |-> t,
     examples |-> <<[walletAddress |-> wallet.address, confirmedAt |-> t]>>,
     features |-> walletFeatures, isBuiltIn |-> FALSE, confidence |-> 50]

\* the pattern heap after addFlaggedExample
HeapAfterFlag(heap, arr, wallet, walletFeatures, patternName, t) ==
    LET i == FindByName(heap, arr, patternName)
    IN IF i # 0
       THEN [heap EXCEPT ![arr[i]] = UpdatedPattern(heap[arr[i]], wallet, walletFeatures, t)]
       ELSE Append(heap, NewPattern(wallet, walletFeatures, patternName, t))

\* the library's pattern array after addFlaggedExample: push happens in place
ArrayAfterFlag(heap, arr, patternName) ==
    IF FindByName(heap, arr, patternName) # 0 THEN arr ELSE Append(arr, Len(heap) + 1)

\* patternLibrary.lastUpdated = Date.now(), on the library passed in
InputAfterFlag(lib, t) == [lib EXCEPT !.lastUpdated = t]

\* return { ...patternLibrary }: a new object with the same fields
ReturnedLibrary(lib) == lib

Init ==
    /\ transactions = <<>>
    /\ wallets = <<>>
    /\ loaded = FALSE
    /\ patterns = BUILT_IN_PATTERNS
    /\ arrays = <<BuiltInRefs>>
    /\ libs = <<[patterns |-> 1, lastUpdated |-> 0]>>
    /\ patternLibrary = 1
    /\ heldLibrary = 0
    /\ now = 0
    /\ lastCall = NoCall
    /\ temporalHeatmap = <<>>

(* Subgraph expansion (subgraphExpansion.ts).  A config is a record          *)
(* [seeds, kHops, timeRange, entityTypeFilter, minValueThreshold,           *)
(* expansionDirection]; seeds is a sequence of addresses, timeRange is      *)
(* <<>> for null or <<start, end>>, entityTypeFilter a sequence of types.   *)

getSuspicionColor(score) ==
    IF score < 30 THEN "green" ELSE IF score < 60 THEN "yellow" ELSE "red"

\* the three filters on the ledger
FilteredTxs(config, txs) ==
    LET byValue  == SelectSeq(txs, LAMBDA tx : tx.Value_ETH >= config.minValueThreshold)
        byTime   == IF config.timeRange # <<>>
                    THEN SelectSeq(byValue, LAMBDA tx :
                             /\ tx.Age_seconds >= config.timeRange[1]
                             /\ tx.Age_seconds <= config.timeRange[2])
                    ELSE byValue
    IN IF Len(config.entityTypeFilter) > 0
       THEN SelectSeq(byTime, LAMBDA tx :
                \/ tx.From_entity_type \in Range(config.entityTypeFilter)
                \/ tx.To_entity_type \in Range(config.entityTypeFilter))
       ELSE byTime

\* forwardEdges.get(address) and backwardEdges.get(address), in insertion order
ForwardEdges(address, txs) ==
    LET out == SelectSeq(txs, LAMBDA tx : tx.From = address)
    IN Dedup([i \in 1..Len(out) |-> out[i].To])

BackwardEdges(address, txs) ==
    LET in == SelectSeq(txs, LAMBDA tx : tx.To = address)
    IN Dedup([i \in 1..Len(in) |-> in[i].From])

\* the transactions of a directed pair taken from the whole ledger
EdgeTransactions_Unfiltered(from, to, txs) ==
    SelectSeq(transactions, LAMBDA tx : tx.From = from /\ tx.To = to)

\* edgeTransactions.get("from->to") || []
EdgeTransactions(from, to, txs) ==
    SelectSeq(txs, LAMBDA tx : tx.From = from /\ tx.To = to)

\* the neighbours of the node taken from the queue
Neighbors(address, direction, txs) ==
    (IF direction \in {"forward", "bidirectional"}
     THEN LET f == ForwardEdges(address, txs)
          IN [i \in 1..Len(f) |-> [address |-> f[i], direction |-> "forward"]]
     ELSE <<>>)
    \o (IF direction \in {"backward", "bidirectional"}
        THEN LET b == BackwardEdges(address, txs)
             IN [i \in 1..Len(b) |-> [address |-> b[i], direction |-> "backward"]]
        ELSE <<>>)

\* position of an address in the visitedNodes map, or 0
VisitedIndex(visited, address) ==
    IF \E i \in 1..Len(visited) : visited[i].address = address
    THEN CHOOSE i \in 1..Len(visited) : visited[i].address = address
    ELSE 0

\* visitedNodes.set: a new key goes last, an old key keeps its place
VisitedSet(visited, entry) ==
    LET i == VisitedIndex(visited, entry.address)
    IN IF i = 0 THEN Append(visited, entry) ELSE [visited EXCEPT ![i] = entry]

\* expansion without a hop limit
HopLimitReached_Never(distance, kHops) == FALSE

\* expansion from a node past the hop limit, one hop late
HopLimitReached_Late(distance, kHops) == distance > kHops

\* if (current.distance >= kHops) continue
HopLimitReached(distance, kHops) == distance >= kHops

\* the body with a map entry replaced also at equal distance
ProcessNeighbor_TiesReplace(st, current, nb, txs) ==
    LET address     == nb.address
        newDistance == current.distance + 1
        newPath     == Append(current.path, address)
        entry       == [address |-> address, distance |-> newDistance, path |-> newPath]
        i           == VisitedIndex(st.visited, address)
        better      == i = 0 \/ st.visited[i].distance >= newDistance
        edge        == IF nb.direction = "forward"
                       THEN EdgeTransactions(current.address, address, txs)
                       ELSE EdgeTransactions(address, current.address, txs)
        linkExists  == \E j \in 1..Len(st.links) :
                          \/ st.links[j].source = current.address /\ st.links[j].target = address
                          \/ /\ st.links[j].source = address
                             /\ st.links[j].target = current.address
                             /\ nb.direction = "backward"
        link        == [source |-> IF nb.direction = "forward" THEN current.address ELSE address,
                        target |-> IF nb.direction = "forward" THEN address ELSE current.address,
                        value |-> SeqSum([j \in 1..Len(edge) |-> edge[j].Value_ETH]),
                        age |-> SeqMin([j \in 1..Len(edge) |-> edge[j].Age_seconds]),
                        txHash |-> edge[1].TxHash,
                        isInSubgraph |-> TRUE,
                        direction |-> nb.direction]
    IN [visited |-> IF better THEN VisitedSet(st.visited, entry) ELSE st.visited,
        queue   |-> IF better THEN Append(st.queue, entry) ELSE st.queue,
        links   |-> IF Len(edge) > 0 /\ ~linkExists THEN Append(st.links, link) ELSE st.links]

\* the body of neighbors.forEach for one neighbour
ProcessNeighbor(st, current, nb, txs) ==
    LET address     == nb.address
        newDistance == current.distance + 1
        newPath     == Append(current.path, address)
        entry       == [address |-> address, distance |-> newDistance, path |-> newPath]
        i           == VisitedIndex(st.visited, address)
        better      == i = 0 \/ st.visited[i].distance > newDistance
        edge        == IF nb.direction = "forward"
                       THEN EdgeTransactions(current.address, address, txs)
                       ELSE EdgeTransactions(address, current.address, txs)
        linkExists  == \E j \in 1..Len(st.links) :
                          \/ st.links[j].source = current.address /\ st.links[j].target = address
                          \/ /\ st.links[j].source = address
                             /\ st.links[j].target = current.address
                             /\ nb.direction = "backward"
        link        == [source |-> IF nb.direction = "forward" THEN current.address ELSE address,
                        target |-> IF nb.direction = "forward" THEN address ELSE current.address,
                        value |-> SeqSum([j \in 1..Len(edge) |-> edge[j].Value_ETH]),
                        age |-> SeqMin([j \in 1..Len(edge) |-> edge[j].Age_seconds]),
                        txHash |-> edge[1].TxHash,
                        isInSubgraph |-> TRUE,
                        direction |-> nb.direction]
    IN [visited |-> IF better THEN VisitedSet(st.visited, entry) ELSE st.visited,
        queue   |-> IF better THEN Append(st.queue, entry) ELSE st.queue,
        links   |-> IF Len(edge) > 0 /\ ~linkExists THEN Append(st.links, link) ELSE st.links]

RECURSIVE ProcessNeighbors(_, _, _, _, _)
ProcessNeighbors(st, current, neighbors, i, txs) ==
    IF i > Len(neighbors) THEN st
    ELSE ProcessNeighbors(ProcessNeighbor(st, current, neighbors[i], txs),
                          current, neighbors, i + 1, txs)

\* while (queue.length > 0)
RECURSIVE BFS(_, _, _)
BFS(st, config, txs) ==
    IF st.queue = <<>> THEN st
    ELSE LET current == Head(st.queue)
             rest    == [st EXCEPT !.queue = Tail(st.queue)]
         IN IF HopLimitReached(current.distance, config.kHops)
            THEN BFS(rest, config, txs)
            ELSE BFS(ProcessNeighbors(rest, current,
                                      Neighbors(current.address, config.expansionDirection, txs),
                                      1, txs),
                     config, txs)

\* seeds.forEach: every seed is set in the map and queued at distance 0
RECURSIVE SeedState(_, _, _)
SeedState(st, seeds, i) ==
    IF i > Len(seeds) THEN st
    ELSE LET entry == [address |-> seeds[i], distance |-> 0, path |-> <<seeds[i]>>]
         IN SeedState([st EXCEPT !.visited = VisitedSet(st.visited, entry),
                                 !.queue = Append(st.queue, entry)],
                      seeds, i + 1)

\* one SubgraphNode; val is in thousandths
SubgraphNode(info, wallet, isSeed) ==
    [id |-> info.address,
     val |-> IF isSeed THEN 15000
             ELSE Max(5000, 2 * ISqrt((wallet.totalSent + wallet.totalReceived) * 1000)),
     color |-> IF isSeed THEN "#f59e0b" ELSE getSuspicionColor(wallet.suspicionScore),
     wallet |-> wallet.address,
     hopDistance |-> info.distance,
     pathFromSeed |-> info.path,
     isSeed |-> isSeed]

expandSubgraph(config, txs, walletMap) ==
    IF Len(config.seeds) = 0 THEN [nodes |-> <<>>, links |-> <<>>, seeds |-> <<>>]
    ELSE LET filteredTxs == FilteredTxs(config, txs)
             start == SeedState([visited |-> <<>>, queue |-> <<>>, links |-> <<>>],
                                config.seeds, 1)
             final == BFS(start, config, filteredTxs)
             known == SelectSeq(final.visited, LAMBDA info :
                          \E k \in 1..Len(walletMap) : walletMap[k].address = info.address)
         IN [nodes |-> [i \in 1..Len(known) |->
                           SubgraphNode(known[i],
                               walletMap[CHOOSE k \in 1..Len(walletMap) :
                                            walletMap[k].address = known[i].address],
                               known[i].address \in Range(config.seeds))],
             links |-> final.links,
             seeds |-> config.seeds]

\* the relationship chosen from the two link tests
Relationship(sendsToSeed, receivesFromSeed) ==
    IF sendsToSeed /\ receivesFromSeed THEN "bidirectional"
    ELSE IF sendsToSeed THEN "sends_to"
    ELSE "receives_from"

\* stable sort of the connected wallets by suspicion score, descending
RECURSIVE InsertConnected(_, _)
InsertConnected(c, s) ==
    IF s = <<>> THEN <<c>>
    ELSE IF c.suspicionScore >= Head(s).suspicionScore THEN <<c>> \o s
    ELSE <<Head(s)>> \o InsertConnected(c, Tail(s))

RECURSIVE SortConnected(_)
SortConnected(s) ==
    IF s = <<>> THEN <<>> ELSE InsertConnected(Head(s), SortConnected(Tail(s)))

\* the entry of one node in the mapping of one seed
ConnectedWallet(node, seed, subgraphData, walletMap, txs) ==
    LET links == subgraphData.links
        sendsToSeed ==
            \E j \in 1..Len(links) : links[j].source = node.id /\ links[j].target = seed
        receivesFromSeed ==
            \E j \in 1..Len(links) : links[j].source = seed /\ links[j].target = node.id
        relevantTxs ==
            SelectSeq(txs, LAMBDA tx : \/ tx.From = node.id /\ tx.To = seed
                                       \/ tx.From = seed /\ tx.To = node.id)
    IN [address |-> node.id,
        relationship |-> Relationship(sendsToSeed, receivesFromSeed),
        hopDistance |-> node.hopDistance,
        totalValue |-> SeqSum([i \in 1..Len(relevantTxs) |-> relevantTxs[i].Value_ETH]),
        txCount |-> Len(relevantTxs),
        suspicionScore |->
            IF \E k \in 1..Len(walletMap) : walletMap[k].address = node.id
            THEN walletMap[CHOOSE k \in 1..Len(walletMap) :
                              walletMap[k].address = node.id].suspicionScore
            ELSE 0]

generateInverseMapping(subgraphData, walletMap, txs) ==
    [i \in 1..Len(subgraphData.seeds) |->
        LET seed   == subgraphData.seeds[i]
            others == SelectSeq(subgraphData.nodes, LAMBDA node : node.id # seed)
        IN [seedAddress |-> seed,
            connectedWallets |->
                SortConnected([j \in 1..Len(others) |->
                                  ConnectedWallet(others[j], seed, subgraphData,
                                                  walletMap, txs)])]]

-----------------------------------------------------------------------------
\* the analysis stage of loadData: analyzeTransactions, then the temporal
\* attention score of every wallet
LoadData(txs) ==
    /\ ~loaded
    /\ transactions' = txs
    /\ wallets' =
          LET analyzed == analyzeTransactions(txs)
          IN [k \in 1..Len(analyzed) |->
                 [analyzed[k] EXCEPT !.temporalAttentionScore =
                                         calculateTemporalAttentionScore(analyzed[k], txs),
                                    !.temporalPatterns =
                                         getTemporalPatterns(analyzed[k], txs)]]
    /\ loaded' = TRUE
    /\ temporalHeatmap' = generateTemporalHeatmap(txs)
    /\ lastCall' = [op |-> "analyzeTransactions"]
    /\ UNCHANGED <<patterns, arrays, libs, patternLibrary, heldLibrary, now>>

\* the reload button: loadData again on the same file
ReloadData ==
    /\ loaded
    /\ wallets' =
          LET analyzed == analyzeTransactions(transactions)
          IN [k \in 1..Len(analyzed) |->
                 [analyzed[k] EXCEPT !.temporalAttentionScore =
                                         calculateTemporalAttentionScore(analyzed[k],
                                                                         transactions),
                                    !.temporalPatterns =
                                         getTemporalPatterns(analyzed[k], transactions)]]
    /\ temporalHeatmap' = generateTemporalHeatmap(transactions)
    /\ lastCall' = [op |-> "analyzeTransactions"]
    /\ UNCHANGED <<transactions, loaded, patterns, arrays, libs, patternLibrary,
                   heldLibrary, now>>

\* handleAnalyzeWallet: analyzeWalletWithAdaptiveGuard on the selected wallet
AnalyzeWallet(k) ==
    /\ loaded
    /\ k \in 1..Len(wallets)
    /\ lastCall' =
          [op |-> "analyzeWalletWithAdaptiveGuard",
           wallet |-> wallets[k].address,
           result |-> analyzeWalletWithAdaptiveGuard(
                          wallets[k], transactions, patterns,
                          arrays[libs[patternLibrary].patterns])]
    /\ UNCHANGED <<transactions, wallets, loaded, patterns, arrays, libs,
                   patternLibrary, heldLibrary, now, temporalHeatmap>>

\* library = addFlaggedExample(library, wallet, transactions, name) at time t,
\* library being the current library
AddFlaggedExample(k, patternName, t) ==
    /\ loaded
    /\ k \in 1..Len(wallets)
    /\ LET lib == libs[patternLibrary]
           arr == arrays[lib.patterns]
           walletFeatures == extractWalletFeatures(wallets[k], transactions)
           input == InputAfterFlag(lib, t)
       IN /\ patterns' = HeapAfterFlag(patterns, arr, wallets[k], walletFeatures, patternName, t)
          /\ arrays' = [arrays EXCEPT ![lib.patterns] = ArrayAfterFlag(patterns, arr, patternName)]
          /\ libs' = Append([libs EXCEPT ![patternLibrary] = input], ReturnedLibrary(input))
          /\ patternLibrary' = Len(libs) + 1
          /\ heldLibrary' = patternLibrary
          /\ now' = t
          /\ lastCall' = [op |-> "addFlaggedExample", wallet |-> wallets[k].address,
                          patternName |-> patternName, returned |-> Len(libs) + 1]
    /\ UNCHANGED <<transactions, wallets, loaded, temporalHeatmap>>

\* handleFlagWallet with confirmed_laundering:
\* setPatternLibrary(addFlaggedExample(patternLibrary, wallet, transactions, name))
FlagWallet(k, patternName, t) ==
    /\ Len(libs) <= MaxLearn
    /\ AddFlaggedExample(k, patternName, t)

\* index of the first reference of arr whose pattern has the id, or 0
FindById(heap, arr, id) ==
    IF \E i \in 1..Len(arr) : heap[arr[i]].id = id
    THEN CHOOSE i \in 1..Len(arr) :
             /\ heap[arr[i]].id = id
             /\ \A j \in 1..(i - 1) : heap[arr[j]].id # id
    ELSE 0

\* removePattern removes: a pattern with the id is found and is not built in
Removes(heap, arr, id) ==
    FindById(heap, arr, id) # 0 /\ ~heap[arr[FindById(heap, arr, id)]].isBuiltIn

\* library = removePattern(library, patternId) at time t: the filter makes a
\* new array for the library passed in, the result is a copy of that library
RemovePattern(patternId, t) ==
    /\ LET lib == libs[patternLibrary]
           arr == arrays[lib.patterns]
           input == IF Removes(patterns, arr, patternId)
                    THEN [patterns |-> Len(arrays) + 1, lastUpdated |-> t]
                    ELSE lib
       IN /\ arrays' = IF Removes(patterns, arr, patternId)
                       THEN Append(arrays,
                                   SelectSeq(arr, LAMBDA r : patterns[r].id # patternId))
                       ELSE arrays
          /\ libs' = Append([libs EXCEPT ![patternLibrary] = input], ReturnedLibrary(input))
          /\ patternLibrary' = Len(libs) + 1
          /\ heldLibrary' = patternLibrary
          /\ now' = t
          /\ lastCall' = [op |-> "removePattern", patternId |-> patternId,
                          returned |-> Len(libs) + 1]
    /\ UNCHANGED <<transactions, wallets, loaded, patterns, temporalHeatmap>>

\* a further createPatternLibrary() at time t: a new library object over a new
\* array holding the BUILT_IN_PATTERNS objects
CreatePatternLibrary(t) ==
    /\ arrays' = Append(arrays, BuiltInRefs)
    /\ libs' = Append(libs, [patterns |-> Len(arrays) + 1, lastUpdated |-> t])
    /\ now' = t
    /\ lastCall' = [op |-> "createPatternLibrary", returned |-> Len(libs) + 1]
    /\ UNCHANGED <<transactions, wallets, loaded, patterns, patternLibrary,
                   heldLibrary, temporalHeatmap>>

\* handleExpandSubgraph: expandSubgraph on the loaded ledger and wallet map,
\* then generateInverseMapping on its result
ExpandSubgraph(config) ==
    /\ loaded
    /\ lastCall' =
          LET expanded == expandSubgraph(config, transactions, wallets)
          IN [op |-> "expandSubgraph", config |-> config, result |-> expanded,
              mapping |-> generateInverseMapping(expanded, wallets, transactions)]
    /\ UNCHANGED <<transactions, wallets, loaded, patterns, arrays, libs,
                   patternLibrary, heldLibrary, now, temporalHeatmap>>

\* ledgers the adaptive guard is exercised on
GuardInputs ==
    {MakeTxs(StarOut(HubFan), "flat", "sparse", "plain"),
     MakeTxs(StarOut(HubFan), "flat", "sparse", "busy"),
     MakeTxs(BigHub(BigHubFan), "decay", "burst", "busy"),
     MakeTxs(Funded(5), "decay", "burst", "busy"),
     MakeTxs(StarOut(4), "peel", "regular", "plain"),
     MakeTxs(Chain, "peel", "uneven", "plain")}

Next ==
    \/ \E txs \in GuardInputs : LoadData(txs)
    \/ ReloadData
    \/ \E k \in 1..MaxSel : AnalyzeWallet(k)
    \/ \E k \in 1..MaxSel, name \in PatternNames, t \in now..Min(now + 1, MaxClock) :
           FlagWallet(k, name, t)

Spec == Init /\ [][Next]_vars

\* the scorer alone, over every input ledger
NextScore == \E txs \in TxInputs : LoadData(txs)

SpecScore == Init /\ [][NextScore]_vars

\* number of library calls explored
MaxCalls == 3

LibraryNames == {"Classic Fan-Out", "Classic Smurfing", "Custom", "Other"}

\* ids asked of removePattern: user ids, a built-in id and an unknown id
RemoveIds == {<<"user", 0>>, <<"user", 1>>, <<"fan-out-classic", 0>>, <<"no-such-id", 0>>}

\* values of Date.now() at the library calls
LibraryTimes == {0, 1}

LibraryInputs ==
    {MakeTxs(Funded(5), "decay", "burst", "busy"),
     MakeTxs(StarOut(4), "peel", "regular", "plain")}

\* the pattern library alone: any sequence of its calls on a loaded ledger
NextLibrary ==
    \/ \E txs \in LibraryInputs : LoadData(txs)
    \/ \E k \in {1, 2}, name \in LibraryNames, t \in {u \in LibraryTimes : u >= now} :
           Len(libs) <= MaxCalls /\ AddFlaggedExample(k, name, t)
    \/ \E id \in RemoveIds : Len(libs) <= MaxCalls /\ RemovePattern(id, now)
    \/ Len(libs) <= MaxCalls /\ CreatePatternLibrary(now)

SpecLibrary == Init /\ [][NextLibrary]_vars

\* largest hop count tried
MaxK == 3

\* S reaches C directly and through A and B
Shortcut == << <<"S", "A">>, <<"A", "B">>, <<"B", "C">>, <<"S", "C">> >>

Diamond == << <<"S", "A">>, <<"S", "B">>, <<"A", "C">>, <<"B", "C">>, <<"C", "D">> >>

Cycle == << <<"S", "A">>, <<"A", "B">>, <<"B", "S">>, <<"B", "C">>, <<"S", "A">> >>

\* everything flows towards S, which pays D
Inflow == << <<"A", "S">>, <<"B", "A">>, <<"C", "B">>, <<"S", "D">>, <<"D", "C">> >>

\* two components joined at C
TwoSources == << <<"S", "A">>, <<"A", "B">>, <<"B", "C">>, <<"D", "C">>, <<"D", "E">> >>

\* S and A pay each other
Mutual == << <<"S", "A">>, <<"A", "S">>, <<"A", "B">> >>

ExpandShapes == {Chain, Shortcut, Diamond, Cycle, Inflow, TwoSources, Mutual}

ExpandInputs == {MakeTxs(shape, "peel", "uneven", "plain") : shape \in ExpandShapes}

\* seed lists: single, several, repeated, and one naming no wallet of the ledger
SeedLists == {<<"S">>, <<"S", "D">>, <<"B", "B">>, <<"Z", "C">>}

\* no filter, a value threshold, a time window with an entity filter, all three
Filters ==
    {[timeRange |-> <<>>, entityTypeFilter |-> <<>>, minValueThreshold |-> 0],
     [timeRange |-> <<>>, entityTypeFilter |-> <<>>, minValueThreshold |-> 5000],
     [timeRange |-> <<100, 330>>, entityTypeFilter |-> <<"known_entity">>,
      minValueThreshold |-> 0],
     [timeRange |-> <<0, 330>>, entityTypeFilter |-> <<"wallet_or_contract">>,
      minValueThreshold |-> 5000]}

ExpandConfigs ==
    {[seeds |-> seeds, kHops |-> k, timeRange |-> f.timeRange,
      entityTypeFilter |-> f.entityTypeFilter,
      minValueThreshold |-> f.minValueThreshold, expansionDirection |-> d] :
        seeds \in SeedLists, k \in 0..MaxK, f \in Filters,
        d \in {"forward", "backward", "bidirectional"}}

NextExpand ==
    \/ \E txs \in ExpandInputs : LoadData(txs)
    \/ \E config \in ExpandConfigs : ExpandSubgraph(config)

SpecExpand == Init /\ [][NextExpand]_vars

-----------------------------------------------------------------------------
(* Shared vocabulary of the properties.                                     *)

WalletAt(address) == wallets[CHOOSE k \in 1..Len(wallets) : wallets[k].address = address]

\* the pattern objects of the current library, in array order
LibraryPatterns ==
    LET arr == arrays[libs[patternLibrary].patterns]
    IN [i \in 1..Len(arr) |-> patterns[arr[i]]]

Analyzed == lastCall.op = "analyzeWalletWithAdaptiveGuard"

Flagged == lastCall.op = "addFlaggedExample"

\* similarity of the analysed wallet to one prototype
SimilarityTo(p) ==
    calculateSimilarity(extractWalletFeatures(WalletAt(lastCall.wallet), transactions),
                        p.features).similarity

\* this step is a call of addFlaggedExample
FlagStep == Len(libs') = Len(libs) + 1 /\ lastCall'.op = "addFlaggedExample"

\* position in the library passed in of the pattern the call names, or 0
NamedBefore ==
    FindByName(patterns, arrays[libs[patternLibrary].patterns], lastCall'.patternName)

NumericFeatures ==
    {"avgFanOut", "avgFanIn", "avgTimeBetweenTx", "avgTxValue", "rhythmVariance"}

-----------------------------------------------------------------------------
(* C1: every wallet's suspicionScore and temporal attention score is in     *)
(* [0,100]; every adaptive-guard result has overallScore in [0,100],        *)
(* confidence in [0,1] and every matched similarity in [0,1], also after    *)
(* learning calls.                                                          *)
C1_ScoresInRange ==
    /\ \A k \in 1..Len(wallets) :
          /\ wallets[k].suspicionScore \in 0..100
          /\ wallets[k].temporalAttentionScore \in 0..100
    /\ Analyzed =>
          /\ lastCall.result.overallScore \in 0..100
          /\ lastCall.result.confidence \in 0..100
          /\ \A i \in 1..Len(lastCall.result.matchedPatterns) :
                lastCall.result.matchedPatterns[i].similarity \in 0..100000

\* an analysis after a learning call, of a wallet whose raw score sum exceeds
\* 100, with at least one match
C1_Witness ==
    /\ Analyzed
    /\ Len(libs) > 1
    /\ WalletAt(lastCall.wallet).suspicionScore = 100
    /\ Len(WalletAt(lastCall.wallet).suspicionReasons) = 6
    /\ lastCall.result.matchedPatterns # <<>>

-----------------------------------------------------------------------------
Expanded == lastCall.op = "expandSubgraph"

\* b is one hop from a in the filtered ledger, in the direction expanded
OneHop(a, b, direction, txs) ==
    \/ /\ direction \in {"forward", "bidirectional"}
       /\ \E i \in 1..Len(txs) : txs[i].From = a /\ txs[i].To = b
    \/ /\ direction \in {"backward", "bidirectional"}
       /\ \E i \in 1..Len(txs) : txs[i].To = a /\ txs[i].From = b

\* the addresses within d hops of some seed
RECURSIVE Within(_, _, _, _)
Within(d, seeds, direction, txs) ==
    IF d = 0 THEN seeds
    ELSE LET near == Within(d - 1, seeds, direction, txs)
         IN near \cup {b \in {txs[i].From : i \in 1..Len(txs)}
                              \cup {txs[i].To : i \in 1..Len(txs)} :
                          \E a \in near : OneHop(a, b, direction, txs)}

\* shortest distance from the nearest seed of an address within k hops
ShortestDistance(a, k, seeds, direction, txs) ==
    CHOOSE d \in 0..k :
        /\ a \in Within(d, seeds, direction, txs)
        /\ \A e \in 0..(d - 1) : a \notin Within(e, seeds, direction, txs)

(* C2: for k >= 0, any direction and a non-empty seed list, the nodes of    *)
(* expandSubgraph are exactly the addresses of the wallet map whose         *)
(* shortest distance from some seed, along the filtered transactions in     *)
(* the chosen direction, is at most k; hopDistance is that distance; seeds  *)
(* have hopDistance 0 and isSeed true; nothing farther than k is included.  *)
C2_NodesAreKHopBall ==
    Expanded =>
       LET config == lastCall.config
           nodes  == lastCall.result.nodes
           txs    == FilteredTxs(config, transactions)
           seeds  == Range(config.seeds)
           ball   == Within(config.kHops, seeds, config.expansionDirection, txs)
           known  == {wallets[k].address : k \in 1..Len(wallets)}
       IN /\ {nodes[i].id : i \in 1..Len(nodes)} = ball \cap known
          /\ \A i, j \in 1..Len(nodes) : nodes[i].id = nodes[j].id => i = j
          /\ \A i \in 1..Len(nodes) :
                /\ nodes[i].hopDistance
                      = ShortestDistance(nodes[i].id, config.kHops, seeds,
                                         config.expansionDirection, txs)
                /\ nodes[i].hopDistance <= config.kHops
                /\ nodes[i].isSeed = (nodes[i].id \in seeds)
                /\ nodes[i].isSeed => nodes[i].hopDistance = 0

\* chain S->A->B->C, seed S, k = 2, forward, no filter: nodes S:0, A:1, B:2
C2_Witness ==
    /\ Expanded
    /\ [i \in 1..Len(transactions) |-> <<transactions[i].From, transactions[i].To>>] = Chain
    /\ lastCall.config.seeds = <<"S">>
    /\ lastCall.config.kHops = 2
    /\ lastCall.config.expansionDirection = "forward"
    /\ lastCall.config.minValueThreshold = 0
    /\ lastCall.config.timeRange = <<>>
    /\ [i \in 1..Len(lastCall.result.nodes) |->
           <<lastCall.result.nodes[i].id, lastCall.result.nodes[i].hopDistance>>]
          = << <<"S", 0>>, <<"A", 1>>, <<"B", 2>> >>

-----------------------------------------------------------------------------
(* C3: addFlaggedExample with a name the library already has appends one    *)
(* example to that prototype, sets each numeric feature to                  *)
(* old*(1-w) + new*w with w = 1/(examples after the append), ORs the two    *)
(* boolean features, widens txCountRange to cover the wallet's count and    *)
(* raises confidence by 0.02 up to 0.95; the number of patterns stays.      *)
C3_ExistingPatternUpdate ==
    [][ (FlagStep /\ NamedBefore # 0) =>
          LET arr == arrays[libs[patternLibrary].patterns]
              ref == arr[NamedBefore]
              old == patterns[ref]
              new == patterns'[ref]
              n   == Len(old.examples) + 1
              wf  == extractWalletFeatures(WalletAt(lastCall'.wallet), transactions)
          IN /\ Len(new.examples) = n
             /\ SubSeq(new.examples, 1, n - 1) = old.examples
             /\ new.examples[n].walletAddress = lastCall'.wallet
             /\ \A f \in NumericFeatures :
                   \* n * new <= (n-1) * old + wallet < n * (new + 1)
                   /\ n * new.features[f] <= (n - 1) * old.features[f] + wf[f]
                   /\ (n - 1) * old.features[f] + wf[f] < n * (new.features[f] + 1)
             /\ new.features.hasPeelingChain = (old.features.hasPeelingChain \/ wf.hasPeelingChain)
             /\ new.features.hasRapidBurst = (old.features.hasRapidBurst \/ wf.hasRapidBurst)
             /\ new.features.txCountRange.min
                    = Min(old.features.txCountRange.min, wf.txCountRange.min)
             /\ new.features.txCountRange.max
                    = Max(old.features.txCountRange.max, wf.txCountRange.max)
             /\ new.confidence = IF old.confidence + 2 > 95 THEN 95 ELSE old.confidence + 2
             /\ Len(arrays'[libs'[patternLibrary'].patterns]) = Len(arr)
             /\ Len(patterns') = Len(patterns)
             /\ \A r \in 1..Len(patterns) : r # ref => patterns'[r] = patterns[r]
      ]_vars

\* a user-created pattern that a second, different wallet was folded into
C3_Witness ==
    /\ Flagged
    /\ \E i \in 1..Len(LibraryPatterns) :
          LET p == LibraryPatterns[i]
          IN /\ ~p.isBuiltIn
             /\ p.name = lastCall.patternName
             /\ Len(p.examples) = 2
             /\ p.examples[1].walletAddress # p.examples[2].walletAddress
             /\ p.confidence = 52

-----------------------------------------------------------------------------
(* C4: addFlaggedExample with a name no prototype has returns a library     *)
(* with exactly one more pattern: that name, isBuiltIn false, confidence    *)
(* 0.5, one example (the confirmed wallet), features equal to               *)
(* extractWalletFeatures of the wallet; the patterns present before are     *)
(* unchanged.                                                               *)
C4_NewPatternCreated ==
    [][ (FlagStep /\ NamedBefore = 0) =>
          LET arr  == arrays[libs[patternLibrary].patterns]
              arr2 == arrays'[libs'[patternLibrary'].patterns]
              new  == patterns'[arr2[Len(arr2)]]
          IN /\ Len(arr2) = Len(arr) + 1
             /\ SubSeq(arr2, 1, Len(arr)) = arr
             /\ \A i \in 1..Len(arr) : patterns'[arr[i]] = patterns[arr[i]]
             /\ new.name = lastCall'.patternName
             /\ new.isBuiltIn = FALSE
             /\ new.confidence = 50
             /\ Len(new.examples) = 1
             /\ new.examples[1].walletAddress = lastCall'.wallet
             /\ new.features = extractWalletFeatures(WalletAt(lastCall'.wallet), transactions)
      ]_vars

\* the library just gained a user-defined pattern with its single example
C4_Witness ==
    /\ Flagged
    /\ Len(LibraryPatterns) = Len(BUILT_IN_PATTERNS) + 1
    /\ LET p == LibraryPatterns[Len(LibraryPatterns)]
       IN /\ p.name = lastCall.patternName
          /\ Len(p.examples) = 1
          /\ p.examples[1].walletAddress = lastCall.wallet

-----------------------------------------------------------------------------
\* the analysed wallet's similarities to every prototype of the library
AllSimilarities == {SimilarityTo(LibraryPatterns[i]) : i \in 1..Len(LibraryPatterns)}

SetMax(S) == CHOOSE m \in S : \A x \in S : x <= m

\* v / 5000 rounded half up and capped at 100
RoundedScore(v) == Min(100, CHOOSE r \in 0..200 : 5000 * r <= v + 2500 /\ v + 2500 < 5000 * (r + 1))

-----------------------------------------------------------------------------
(* C5: analyzeWalletWithAdaptiveGuard sets isZeroDayCandidate iff the       *)
(* wallet's suspicionScore is at least 50 and its best similarity to any    *)
(* prototype is below 0.5; zeroDayReason is the fixed string exactly when   *)
(* the flag is set and absent otherwise.                                    *)
C5_ZeroDayIff ==
    Analyzed =>
       LET r == lastCall.result
           s == WalletAt(lastCall.wallet).suspicionScore
       IN /\ r.isZeroDayCandidate = (s >= 50 /\ \A m \in AllSimilarities : m < 50000)
          /\ r.isZeroDayCandidate => r.zeroDayReason = ZeroDayReason
          /\ ~r.isZeroDayCandidate => r.zeroDayReason = "undefined"

\* a flagged wallet whose best similarity lies between 0.3 and 0.5
C5_Witness ==
    /\ Analyzed
    /\ lastCall.result.isZeroDayCandidate
    /\ lastCall.result.zeroDayReason = ZeroDayReason
    /\ WalletAt(lastCall.wallet).suspicionScore >= 50
    /\ SetMax(AllSimilarities) > 30000
    /\ SetMax(AllSimilarities) < 50000

-----------------------------------------------------------------------------
(* C6 as stated: overallScore = round(clamp(0.4*suspicionScore              *)
(* + 60*maxSimilarity + bonus)) with maxSimilarity the highest similarity   *)
(* over ALL prototypes compared and bonus 10 when more than 2 matched.      *)
C6_MaxOverAllPrototypes ==
    Analyzed =>
       LET r == lastCall.result
           s == WalletAt(lastCall.wallet).suspicionScore
           bonus == IF Len(r.matchedPatterns) > 2 THEN 50000 ELSE 0
       IN r.overallScore = RoundedScore(2000 * s + 3 * SetMax(AllSimilarities) + bonus)

(* C6: overallScore = round(clamp(0.4*suspicionScore + 60*maxSimilarity     *)
(* + bonus)) where maxSimilarity is the highest similarity among the        *)
(* prototypes whose similarity exceeds 0.3, and 0 when there is none; the   *)
(* bonus is 10 when more than 2 patterns matched and 0 otherwise.           *)
C6_MaxOverMatched ==
    Analyzed =>
       LET r == lastCall.result
           s == WalletAt(lastCall.wallet).suspicionScore
           above == {m \in AllSimilarities : m > 30000}
           maxSimilarity == IF above = {} THEN 0 ELSE SetMax(above)
           bonus == IF Len(r.matchedPatterns) > 2 THEN 50000 ELSE 0
       IN /\ Len(r.matchedPatterns)
                = Cardinality({i \in 1..Len(LibraryPatterns) :
                                  SimilarityTo(LibraryPatterns[i]) > 30000})
          /\ r.overallScore = RoundedScore(2000 * s + 3 * maxSimilarity + bonus)

\* a scored wallet none of whose similarities exceeds 0.3 although its best
\* similarity is positive
C6_Witness ==
    /\ Analyzed
    /\ lastCall.result.matchedPatterns = <<>>
    /\ SetMax(AllSimilarities) > 0
    /\ WalletAt(lastCall.wallet).suspicionScore > 0

-----------------------------------------------------------------------------
(* C7: addFlaggedExample(L, ...) returns a library value distinct from L    *)
(* and leaves L untouched at top level: the pattern list (length and        *)
(* membership) and lastUpdated seen through a reference to L held before    *)
(* the call are the same after the call.                                    *)
C7_InputUntouched ==
    [][ FlagStep =>
          /\ patternLibrary' # patternLibrary
          /\ libs'[patternLibrary] = libs[patternLibrary]
          /\ arrays'[libs[patternLibrary].patterns] = arrays[libs[patternLibrary].patterns]
      ]_vars

-----------------------------------------------------------------------------
\* the ages of the transactions a wallet sent, ascending, and their gaps
SentTimes(address) == TxTimes(WalletTxs(address, transactions))

SentGaps(address) == Gaps(SentTimes(address))

\* the values of the transactions a wallet sent, descending
SentValues(address) ==
    LET walletTxs == WalletTxs(address, transactions)
    IN SortDesc([i \in 1..Len(walletTxs) |-> walletTxs[i].Value_ETH])

SumSquares(gaps) == SeqSum([i \in 1..Len(gaps) |-> gaps[i] * gaps[i]])

\* sqrt(population variance) / mean < c / 100, a mean of 0 counting as 1:
\* with n gaps of sum S and square sum Q, 10000 * (n*Q - S*S) < c*c * S*S
CVBelow(gaps, c) ==
    LET g == SeqGcd(gaps)
        u == [i \in 1..Len(gaps) |-> IF g = 0 THEN 0 ELSE gaps[i] \div g]
        S == SeqSum(u)
    IN S = 0 \/ 10000 * (Len(u) * SumSquares(u) - S * S) < c * c * S * S

\* the rhythm the stated rule gives for a list of gaps
StatedRhythm(gaps) ==
    IF CVBelow(gaps, 5) /\ SeqSum(gaps) < 300 * Len(gaps) THEN "highly_suspicious"
    ELSE IF CVBelow(gaps, 10) /\ SeqSum(gaps) < 600 * Len(gaps) THEN "suspicious"
    ELSE "normal"

StatedRhythmBonus(rhythm) ==
    IF rhythm = "highly_suspicious" THEN 20 ELSE IF rhythm = "suspicious" THEN 10 ELSE 0

\* the score contributions other than peeling and rhythm
OtherParts(address) ==
    LET walletTxs == WalletTxs(address, transactions)
    IN FanOutPart(OutCount(address, transactions))
       + FanInPart(InCount(address, transactions))
       + ClusterPart(ClusterCount(TxTimes(walletTxs)))
       + FeePart(HighFeeCount(walletTxs))
       + VolumePart(TxCountFold(address, transactions, 0))

-----------------------------------------------------------------------------
(* C8 as stated: whenever a wallet has at least one gap between its sorted  *)
(* transaction ages, its rhythm is highly_suspicious (+20) iff CV < 0.05    *)
(* and mean gap < 300, else suspicious (+10) iff CV < 0.10 and mean gap     *)
(* < 600, else normal (+0).                                                 *)
C8_RhythmFromOneGap ==
    \A k \in 1..Len(wallets) :
       LET gaps == SentGaps(wallets[k].address)
       IN Len(gaps) >= 1 => wallets[k].transactionRhythm = StatedRhythm(gaps)

(* C8: the rhythm is classified by that rule whenever the wallet sent at    *)
(* least three transactions (two gaps); with fewer it stays normal and      *)
(* adds nothing to the score.                                               *)
C8_RhythmFromTwoGaps ==
    \A k \in 1..Len(wallets) :
       LET a    == wallets[k].address
           gaps == SentGaps(a)
           r    == IF Len(gaps) >= 2 THEN StatedRhythm(gaps) ELSE "normal"
       IN /\ wallets[k].transactionRhythm = r
          /\ wallets[k].suspicionScore
                = Min(100, OtherParts(a)
                           + PeelingPart(PeelingCount(WalletTxs(a, transactions)))
                           + StatedRhythmBonus(r))

\* ages [300,270,240,210]: mean gap 30, CV 0, highly_suspicious
C8_Witness ==
    \E k \in 1..Len(wallets) :
       /\ SentTimes(wallets[k].address) = <<210, 240, 270, 300>>
       /\ wallets[k].transactionRhythm = "highly_suspicious"
       /\ wallets[k].avgTimeBetweenTx = 30000

-----------------------------------------------------------------------------
\* the consecutive pairs of a descending list with a decrease in (0, 0.15)
PeelingPairs(values) ==
    {i \in 2..Len(values) :
        /\ values[i - 1] > values[i]
        /\ (values[i - 1] - values[i]) * 100 < 15 * values[i - 1]}

(* C9: isPeelingSource holds iff at least 2 consecutive pairs of the        *)
(* wallet's descending-sorted transaction values have a fractional          *)
(* decrease strictly between 0 and 0.15; the score contribution is          *)
(* min(25, 5*count) when flagged and 0 otherwise.                           *)
C9_PeelingIff ==
    \A k \in 1..Len(wallets) :
       LET a     == wallets[k].address
           count == Cardinality(PeelingPairs(SentValues(a)))
       IN /\ wallets[k].isPeelingSource = (count >= 2)
          /\ wallets[k].suspicionScore
                = Min(100, OtherParts(a) + Rhythm(SentTimes(a)).bonus
                           + (IF count >= 2 THEN Min(25, 5 * count) ELSE 0))

\* values [10, 9, 8.5, 2]: exactly two qualifying pairs, flag set
C9_Witness ==
    \E k \in 1..Len(wallets) :
       /\ SentValues(wallets[k].address) = <<10000, 9000, 8500, 2000>>
       /\ Cardinality(PeelingPairs(SentValues(wallets[k].address))) = 2
       /\ wallets[k].isPeelingSource
       /\ "peeling" \in Range(wallets[k].suspicionReasons)

-----------------------------------------------------------------------------
\* neighbour counts the role rules are tried on
MaxNeighbours == 11

MulePrecondition(wallet, outCount, inCount) ==
    outCount >= 5 /\ inCount < 5 /\ wallet.totalReceived > 0

AggregatorPrecondition(wallet, outCount, inCount) ==
    inCount >= 5 /\ outCount < 5 /\ wallet.totalSent > 0

\* the role rules with the aggregator rule tested before the mule rule
RoleAggregatorFirst(wallet, outCount, inCount) ==
    IF AggregatorPrecondition(wallet, outCount, inCount) THEN "aggregator"
    ELSE IF MulePrecondition(wallet, outCount, inCount) THEN "mule"
    ELSE IF outCount >= 5 /\ wallet.isPeelingSource THEN "splitter"
    ELSE IF outCount >= 5 /\ outCount > inCount * 2 THEN "splitter"
    ELSE IF inCount >= 5 /\ inCount > outCount * 2 THEN "aggregator"
    ELSE "normal"

(* C10: for every wallet and every pair of neighbour counts the mule and    *)
(* the aggregator precondition never hold together, and classifyWalletRole  *)
(* gives the role it would give with the two rules tested in the other      *)
(* order.                                                                   *)
C10_MuleAggregatorExclusive ==
    \A k \in 1..Len(wallets) :
       /\ wallets[k].walletRole
             = RoleAggregatorFirst(wallets[k], OutCount(wallets[k].address, transactions),
                                   InCount(wallets[k].address, transactions))
       /\ \A o \in 0..MaxNeighbours, i \in 0..MaxNeighbours :
             /\ ~(MulePrecondition(wallets[k], o, i) /\ AggregatorPrecondition(wallets[k], o, i))
             /\ classifyWalletRole(wallets[k], o, i) = RoleAggregatorFirst(wallets[k], o, i)

\* a ledger with a mule, and one with an aggregator that both sent and received
C10_Witness ==
    \E k \in 1..Len(wallets) :
       /\ wallets[k].totalSent > 0
       /\ wallets[k].totalReceived > 0
       /\ wallets[k].walletRole \in {"mule", "aggregator"}

-----------------------------------------------------------------------------
\* the distinct addresses a wallet sent to, and those that sent to it
Recipients(address) ==
    {transactions[i].To : i \in {j \in 1..Len(transactions) : transactions[j].From = address}}

Senders(address) ==
    {transactions[i].From : i \in {j \in 1..Len(transactions) : transactions[j].To = address}}

(* C11: participatesInFanOut holds iff the wallet sent to at least 5        *)
(* distinct addresses and participatesInFanIn iff at least 5 distinct       *)
(* addresses sent to it; repeated counterparties count once.                *)
C11_FanFlagsIff ==
    \A k \in 1..Len(wallets) :
       /\ wallets[k].participatesInFanOut = (Cardinality(Recipients(wallets[k].address)) >= 5)
       /\ wallets[k].participatesInFanIn = (Cardinality(Senders(wallets[k].address)) >= 5)

\* five payments to one counterparty raise no flag
C11_Witness ==
    \E k \in 1..Len(wallets) :
       /\ wallets[k].outgoingCount >= 5
       /\ Cardinality(Recipients(wallets[k].address)) = 1
       /\ ~wallets[k].participatesInFanOut

-----------------------------------------------------------------------------
\* the number of consecutive sorted ages of the sent transactions closer than 60s
CloseGaps(address) ==
    Cardinality({i \in 1..Len(SentGaps(address)) : SentGaps(address)[i] < 60})

\* the number of sent transactions with fee/value above 0.01
HighFees(address) ==
    LET sent == WalletTxs(address, transactions)
    IN Cardinality({i \in 1..Len(sent) : sent[i].Fee_to_Value > 10})

\* the contributions in detection order, each with the reason it pushes
\* ("" for none)
StatedContributions(w) ==
    LET out == Cardinality(Recipients(w.address))
        in  == Cardinality(Senders(w.address))
        n   == Cardinality(PeelingPairs(SentValues(w.address)))
        c   == CloseGaps(w.address)
        f   == HighFees(w.address)
    IN << [add |-> IF out >= 5 THEN Min(30, 3 * out) ELSE 0,
           reason |-> IF out >= 5 THEN "fan-out" ELSE ""],
          [add |-> IF in >= 5 THEN Min(30, 3 * in) ELSE 0,
           reason |-> IF in >= 5 THEN "fan-in" ELSE ""],
          [add |-> IF n >= 2 THEN Min(25, 5 * n) ELSE 0,
           reason |-> IF n >= 2 THEN "peeling" ELSE ""],
          [add |-> IF c >= 3 THEN Min(20, 4 * c) ELSE 0,
           reason |-> IF c >= 3 THEN "clustered" ELSE ""],
          [add |-> IF f >= 2 THEN Min(15, 3 * f) ELSE 0,
           reason |-> IF f >= 2 THEN "high-fee" ELSE ""],
          [add |-> IF w.txCount > 100 THEN Min(10, w.txCount \div 50) ELSE 0,
           reason |-> ""],
          [add |-> StatedRhythmBonus(w.transactionRhythm),
           reason |-> IF w.transactionRhythm = "highly_suspicious" THEN "automated"
                      ELSE IF w.transactionRhythm = "suspicious" THEN "regular-timing"
                      ELSE ""] >>

(* C12: suspicionScore = min(100, fan-out + fan-in + peeling + clustering   *)
(* + fee + volume + rhythm contributions) and suspicionReasons lists the    *)
(* triggered reasons in that detection order, the volume bonus adding none. *)
C12_ScoreIsCappedSum ==
    \A k \in 1..Len(wallets) :
       LET parts == StatedContributions(wallets[k])
       IN /\ wallets[k].suspicionScore
                = Min(100, SeqSum([i \in 1..Len(parts) |-> parts[i].add]))
          /\ wallets[k].suspicionReasons
                = LET triggered == SelectSeq(parts, LAMBDA part : part.reason # "")
                  IN [i \in 1..Len(triggered) |-> triggered[i].reason]

\* five reasons in order, a volume bonus without a reason, a sum below the cap
C12_Witness ==
    \E k \in 1..Len(wallets) :
       /\ wallets[k].txCount > 100
       /\ wallets[k].suspicionScore < 100
       /\ wallets[k].suspicionReasons
             = <<"fan-out", "peeling", "clustered", "high-fee", "automated">>

-----------------------------------------------------------------------------
\* this step is a second run of analyzeTransactions on the loaded ledger
RerunStep == loaded /\ lastCall'.op = "analyzeTransactions"

-----------------------------------------------------------------------------
\* the per-wallet statistics the scorer's rules give on a list of transactions
StatsOver(own) ==
    LET values == SortDesc([i \in 1..Len(own) |-> own[i].Value_ETH])
        times  == SortAsc([i \in 1..Len(own) |-> own[i].Age_seconds])
        gaps   == Gaps(times)
    IN [peeling   |-> Cardinality(PeelingPairs(values)) >= 2,
        clustered |-> Cardinality({i \in 1..Len(gaps) : gaps[i] < 60}) >= 3,
        highFee   |-> Cardinality({i \in 1..Len(own) : own[i].Fee_to_Value > 10}) >= 2,
        rhythm    |-> IF Len(gaps) >= 2 THEN StatedRhythm(gaps) ELSE "normal"]

\* the statistics recorded on a wallet
StatsOf(w) ==
    [peeling   |-> w.isPeelingSource,
     clustered |-> "clustered" \in Range(w.suspicionReasons),
     highFee   |-> "high-fee" \in Range(w.suspicionReasons),
     rhythm    |-> w.transactionRhythm]

SentBy(address) == SelectSeq(transactions, LAMBDA t : t.From = address)

SentOrReceivedBy(address) ==
    SelectSeq(transactions, LAMBDA t : t.From = address \/ t.To = address)

(* C14 as stated: the peeling, clustering, high-fee and rhythm statistics   *)
(* of a wallet are computed over every transaction in which it is sender    *)
(* or recipient, so a receive-only wallet is analysed on what it received.  *)
C14_StatsOverSentOrReceived ==
    \A k \in 1..Len(wallets) :
       StatsOf(wallets[k]) = StatsOver(SentOrReceivedBy(wallets[k].address))

(* C14: the peeling, clustering, high-fee and rhythm statistics of a        *)
(* wallet are computed over the transactions it sent only; a wallet that    *)
(* only receives gets none of them: no peeling flag, rhythm normal, average *)
(* gap 0, and no reason other than fan-in.                                  *)
C14_StatsOverSent ==
    \A k \in 1..Len(wallets) :
       /\ StatsOf(wallets[k]) = StatsOver(SentBy(wallets[k].address))
       /\ SentBy(wallets[k].address) = <<>> =>
             /\ ~wallets[k].isPeelingSource
             /\ wallets[k].transactionRhythm = "normal"
             /\ wallets[k].avgTimeBetweenTx = 0
             /\ Range(wallets[k].suspicionReasons) \subseteq {"fan-in"}

\* a wallet whose sent and received transactions give different statistics
C14_Witness ==
    \E k \in 1..Len(wallets) :
       /\ wallets[k].totalReceived > 0
       /\ StatsOver(SentBy(wallets[k].address))
             # StatsOver(SentOrReceivedBy(wallets[k].address))
       /\ StatsOf(wallets[k]) = StatsOver(SentBy(wallets[k].address))

-----------------------------------------------------------------------------
\* the addresses expandSubgraph expands: those nearer than k hops to a seed
ExpandedAddresses ==
    LET config == lastCall.config
    IN IF config.kHops = 0 THEN {}
       ELSE Within(config.kHops - 1, Range(config.seeds), config.expansionDirection,
                   FilteredTxs(config, transactions))

\* the number of links of the result with this source and target
LinkCount(source, target) ==
    Cardinality({i \in 1..Len(lastCall.result.links) :
                    /\ lastCall.result.links[i].source = source
                    /\ lastCall.result.links[i].target = target})

(* C15: whenever an expanded node u (distance < k) reaches a neighbour v    *)
(* along an allowed direction, the result holds exactly one link for the    *)
(* directed pair (u->v by forward adjacency, v->u by backward adjacency):   *)
(* no ordered pair appears twice and none is omitted because the opposite   *)
(* link is already present.                                                 *)
C15_OneLinkPerDirectedPair ==
    Expanded =>
       LET config == lastCall.config
           txs    == FilteredTxs(config, transactions)
           ends   == {txs[i].From : i \in 1..Len(txs)} \cup {txs[i].To : i \in 1..Len(txs)}
       IN /\ \A a, b \in ends : LinkCount(a, b) <= 1
          /\ \A u \in ExpandedAddresses, v \in ends :
                /\ OneHop(u, v, "forward", txs)
                      /\ config.expansionDirection \in {"forward", "bidirectional"}
                   => LinkCount(u, v) = 1
                /\ OneHop(u, v, "backward", txs)
                      /\ config.expansionDirection \in {"backward", "bidirectional"}
                   => LinkCount(v, u) = 1

-----------------------------------------------------------------------------
(* C16: every link (source, target) of expandSubgraph, in every direction   *)
(* mode, has at least one transaction that passed the filters with          *)
(* From = source and To = target; its value is the sum of the values of     *)
(* the filtered transactions on that ordered pair and its age their         *)
(* minimum age; filtered-out transactions contribute to no link.            *)
C16_LinksAggregateFiltered ==
    Expanded =>
       LET txs   == FilteredTxs(lastCall.config, transactions)
           links == lastCall.result.links
       IN \A j \in 1..Len(links) :
             LET on == {i \in 1..Len(txs) :
                           txs[i].From = links[j].source /\ txs[i].To = links[j].target}
             IN /\ on # {}
                /\ links[j].value
                      = SeqSum([i \in 1..Len(txs) |-> IF i \in on THEN txs[i].Value_ETH ELSE 0])
                /\ \E i \in on : links[j].age = txs[i].Age_seconds
                /\ \A i \in on : links[j].age <= txs[i].Age_seconds

\* a link summing two transactions of one pair while the value filter
\* excludes another transaction of the ledger
C16_Witness ==
    /\ Expanded
    /\ lastCall.config.minValueThreshold = 5000
    /\ \E i \in 1..Len(transactions) : transactions[i].Value_ETH < 5000
    /\ \E j \in 1..Len(lastCall.result.links) :
          /\ lastCall.result.links[j].value = 18000
          /\ Len(SelectSeq(transactions, LAMBDA tx :
                    /\ tx.From = lastCall.result.links[j].source
                    /\ tx.To = lastCall.result.links[j].target)) = 2

-----------------------------------------------------------------------------
\* the result of expandSubgraph has a link from source to target
HasLink(source, target) == LinkCount(source, target) > 0

(* C17: for every seed and every other node of the subgraph the reported    *)
(* relationship reflects the subgraph's links: bidirectional only if links  *)
(* node->seed and seed->node both exist, sends_to only if a link            *)
(* node->seed exists, receives_from only if a link seed->node exists.       *)
C17_RelationshipReflectsLinks ==
    Expanded =>
       \A i \in 1..Len(lastCall.mapping) :
          LET seed == lastCall.mapping[i].seedAddress
              cw   == lastCall.mapping[i].connectedWallets
          IN \A j \in 1..Len(cw) :
                /\ cw[j].relationship = "bidirectional"
                      => HasLink(cw[j].address, seed) /\ HasLink(seed, cw[j].address)
                /\ cw[j].relationship = "sends_to" => HasLink(cw[j].address, seed)
                /\ cw[j].relationship = "receives_from" => HasLink(seed, cw[j].address)


-----------------------------------------------------------------------------
(* C18: rapid-sequence entries of getTemporalPatterns.                     *)

\* the transactions a wallet takes part in, oldest first, as on the page
SortedInvolved(w) == SortByAgeDesc(InvolvedTxs(w.address, transactions))

\* the gap after position i of s is at most 5 seconds
RapidGap(s, i) == Abs(s[i + 1].Age_seconds - s[i].Age_seconds) <= RAPID_SEQUENCE_THRESHOLD

\* the maximal runs <<a, b>> of positions of s joined by at least two rapid gaps
RapidRuns(s) ==
    {run \in (1..Len(s)) \X (1..Len(s)) :
        /\ run[2] - run[1] >= 2
        /\ \A i \in run[1]..(run[2] - 1) : RapidGap(s, i)
        /\ run[1] = 1 \/ ~RapidGap(s, run[1] - 1)
        /\ run[2] = Len(s) \/ ~RapidGap(s, run[2])}

RunHashes(s, run) == [i \in 1..(run[2] - run[1] + 1) |-> s[run[1] + i - 1].TxHash]

RapidEntries(w) == SelectSeq(w.temporalPatterns, LAMBDA p : p.type = "rapid_sequence")

\* C18: every wallet's rapid_sequence entries are exactly one per maximal run
\* of at least two adjacent gaps of at most 5 seconds in its age-sorted
\* transactions, a run that reaches the last transaction included; an entry
\* lists exactly the transactions of its run and is high iff the run has at
\* least 5 transactions, else medium.
C18_OneEntryPerRapidRun ==
    loaded =>
        \A k \in 1..Len(wallets) :
            LET s       == SortedInvolved(wallets[k])
                entries == RapidEntries(wallets[k])
            IN /\ \A run \in RapidRuns(s) :
                      Cardinality({e \in 1..Len(entries) :
                          entries[e].involvedTransactions = RunHashes(s, run)}) = 1
               /\ \A e \in 1..Len(entries) :
                      \E run \in RapidRuns(s) :
                          /\ entries[e].involvedTransactions = RunHashes(s, run)
                          /\ entries[e].severity =
                                 IF run[2] - run[1] + 1 >= 5 THEN "high" ELSE "medium"

\* a run of three rapid transactions closed by a longer gap is reported
C18_ReportedRun ==
    /\ loaded
    /\ \E k \in 1..Len(wallets) :
           \E e \in 1..Len(RapidEntries(wallets[k])) :
               Len(RapidEntries(wallets[k])[e].involvedTransactions) >= 3


-----------------------------------------------------------------------------
(* C19: the periodicity part of the temporal attention score.              *)

\* the ages of the transactions a wallet takes part in, largest first
InvolvedTimes(w) ==
    LET own == InvolvedTxs(w.address, transactions)
    IN SortDesc([i \in 1..Len(own) |-> own[i].Age_seconds])

\* 25 / 15 / 8 / 0 by the CV of the gaps, a zero mean gap counting as 1
PeriodicityByCV(gaps) ==
    IF CVBelow(gaps, 5) THEN 25
    ELSE IF CVBelow(gaps, 10) THEN 15
    ELSE IF CVBelow(gaps, PERIODIC_VARIANCE_THRESHOLD) THEN 8
    ELSE 0

\* the temporal score of w when its periodicity part is p
TemporalScoreWith(w, p) ==
    LET times == InvolvedTimes(w)
    IN Min(100, Min(30, Len(detectBursts(times)) * 10)
                + p
                + detectTimeConcentration(InvolvedTxs(w.address, transactions))
                + Min(20, detectRapidSequences(times) * 5))

\* C19 as stated: with at least 3 transactions the periodicity part is 25,
\* 15, 8 or 0 by CV < 0.05, < 0.10, < 0.15, a zero mean gap being replaced by
\* 1; with fewer than 3 transactions it is 0.
C19_PeriodicityZeroMeanAsOne ==
    loaded =>
        \A k \in 1..Len(wallets) :
            LET times == InvolvedTimes(wallets[k])
            IN Len(times) >= 2 =>
                   wallets[k].temporalAttentionScore =
                       TemporalScoreWith(wallets[k],
                           IF Len(times) >= 3 THEN PeriodicityByCV(AbsGaps(times)) ELSE 0)

\* what detectPeriodicity gives instead: the same steps when the mean gap is
\* above zero, and 0 when the mean gap is zero
C19_PeriodicityZeroMeanIsNone ==
    loaded =>
        \A k \in 1..Len(wallets) :
            LET times == InvolvedTimes(wallets[k])
            IN Len(times) >= 2 =>
                   wallets[k].temporalAttentionScore =
                       TemporalScoreWith(wallets[k],
                           IF Len(times) >= 3 /\ SeqSum(AbsGaps(times)) > 0
                           THEN PeriodicityByCV(AbsGaps(times)) ELSE 0)

\* a wallet with three or more transactions, all at the same age
C19_SameAgeWallet ==
    /\ loaded
    /\ \E k \in 1..Len(wallets) :
           /\ Len(InvolvedTimes(wallets[k])) >= 3
           /\ SeqSum(AbsGaps(InvolvedTimes(wallets[k]))) = 0
           /\ wallets[k].temporalAttentionScore = TemporalScoreWith(wallets[k], 0)
           /\ wallets[k].temporalAttentionScore < TemporalScoreWith(wallets[k], 25)


-----------------------------------------------------------------------------
(* C20: detectBursts and the burst part of the temporal attention score.   *)

\* the gap after position i of times is at most 30 seconds
BurstGap(times, i) == Abs(times[i + 1] - times[i]) <= BURST_THRESHOLD_SECONDS

\* the maximal runs <<a, b>> of at least 3 positions of times whose adjacent
\* gaps are all at most 30 seconds
BurstRuns(times) ==
    {run \in (1..Len(times)) \X (1..Len(times)) :
        /\ run[2] - run[1] + 1 >= BURST_MIN_COUNT
        /\ \A i \in run[1]..(run[2] - 1) : BurstGap(times, i)
        /\ run[1] = 1 \/ ~BurstGap(times, run[1] - 1)
        /\ run[2] = Len(times) \/ ~BurstGap(times, run[2])}

\* the runs in the order of their first position
RunsInOrder(runs) ==
    [j \in 1..Cardinality(runs) |->
        CHOOSE run \in runs : Cardinality({r \in runs : r[1] < run[1]}) = j - 1]

BurstEntries(w) == SelectSeq(w.temporalPatterns, LAMBDA p : p.type = "burst")

\* C20: for every wallet, detectBursts on its age-sorted times returns exactly
\* the maximal runs of at least 3 transactions with every adjacent gap at most
\* 30 seconds, each with the run's first age, last age and size, none of them
\* overlapping and none missed, the run ending at the last transaction
\* included; the burst part of the temporal score is min(30, 10 * bursts).
C20_BurstsAreMaximalRuns ==
    loaded =>
        \A k \in 1..Len(wallets) :
            LET times   == InvolvedTimes(wallets[k])
                runs    == RunsInOrder(BurstRuns(times))
                bursts  == detectBursts(times)
                entries == BurstEntries(wallets[k])
            IN Len(times) >= 2 =>
                   /\ bursts = [j \in 1..Len(runs) |->
                                   [start |-> times[runs[j][1]],
                                    end   |-> times[runs[j][2]],
                                    count |-> runs[j][2] - runs[j][1] + 1]]
                   /\ \A i, j \in 1..Len(runs) : i < j => runs[i][2] < runs[j][1]
                   /\ Len(entries) = Len(runs)
                   /\ \A j \in 1..Len(runs) :
                          /\ entries[j].timeRange = [start |-> times[runs[j][1]],
                                                     end   |-> times[runs[j][2]]]
                          /\ Len(entries[j].involvedTransactions)
                                 = runs[j][2] - runs[j][1] + 1
                   /\ wallets[k].temporalAttentionScore =
                          Min(100, Min(30, 10 * Len(runs))
                                   + detectPeriodicity(times)
                                   + detectTimeConcentration(
                                         InvolvedTxs(wallets[k].address, transactions))
                                   + Min(20, detectRapidSequences(times) * 5))

\* a wallet with more than three bursts, one of them preceded by a longer gap
\* and ending at the last transaction
C20_Witness ==
    /\ loaded
    /\ \E k \in 1..Len(wallets) :
           LET times == InvolvedTimes(wallets[k])
               runs  == BurstRuns(times)
           IN /\ Cardinality(runs) > 3
              /\ \E run \in runs : run[1] > 1 /\ run[2] = Len(times)
              /\ Len(BurstEntries(wallets[k])) = Cardinality(runs)


-----------------------------------------------------------------------------
(* C21: the priority order of the role rules.                              *)

\* the six rules in their stated order, by the name of the role they give,
\* for a wallet with out recipients and in senders
RoleRules(w, out, in) ==
    << [role |-> "mule",       holds |-> out >= 5 /\ in < 5 /\ w.totalReceived > 0],
       [role |-> "aggregator", holds |-> in >= 5 /\ out < 5 /\ w.totalSent > 0],
       [role |-> "splitter",   holds |-> out >= 5 /\ w.isPeelingSource],
       [role |-> "splitter",   holds |-> out >= 5 /\ out > 2 * in],
       [role |-> "aggregator", holds |-> in >= 5 /\ in > 2 * out],
       [role |-> "normal",     holds |-> TRUE] >>

\* the position of the first rule that holds
FirstRule(w, out, in) ==
    CHOOSE r \in 1..6 :
        /\ RoleRules(w, out, in)[r].holds
        /\ \A q \in 1..(r - 1) : ~RoleRules(w, out, in)[q].holds

\* C21: every wallet's role is the one of the first rule that holds, in the
\* order mule, aggregator, splitter by peeling, splitter by ratio, aggregator
\* by ratio, normal; a wallet with fewer than 5 recipients and fewer than 5
\* senders is normal; a mule or splitter has participatesInFanOut and an
\* aggregator participatesInFanIn.
C21_FirstMatchingRole ==
    \A k \in 1..Len(wallets) :
        LET w   == wallets[k]
            out == Cardinality(Recipients(w.address))
            in  == Cardinality(Senders(w.address))
        IN /\ w.walletRole = RoleRules(w, out, in)[FirstRule(w, out, in)].role
           /\ (out < 5 /\ in < 5) => w.walletRole = "normal"
           /\ w.walletRole \in {"mule", "splitter"} => w.participatesInFanOut
           /\ w.walletRole = "aggregator" => w.participatesInFanIn

\* a wallet that meets the mule rule and the peeling splitter rule is a mule
C21_Witness ==
    \E k \in 1..Len(wallets) :
        LET w   == wallets[k]
            out == Cardinality(Recipients(w.address))
            in  == Cardinality(Senders(w.address))
        IN /\ RoleRules(w, out, in)[1].holds
           /\ RoleRules(w, out, in)[3].holds
           /\ w.walletRole = "mule"


-----------------------------------------------------------------------------
(* C22: the temporal heatmap.                                              *)

\* the index day * 24 + hour of the cell that counts transaction i
CellOf(i) ==
    LET ages   == [j \in 1..Len(transactions) |-> transactions[j].Age_seconds]
        lo     == SeqMin(ages)
        hi     == CHOOSE a \in Range(ages) : \A b \in Range(ages) : b <= a
    IN HeatmapIndex(ages[i], lo, IF hi = lo THEN 1 ELSE hi - lo)

\* C22: the heatmap has exactly 168 cells, one per day 0..6 and hour 0..23;
\* every transaction is counted in exactly one cell; the remap of ages onto
\* cells preserves order: age(a) <= age(b) implies cell(a) <= cell(b); each
\* cell's intensity is min(1, txCount / 10).
C22_HeatmapOrderPreserving ==
    loaded =>
        /\ Len(temporalHeatmap) = 168
        /\ \A d \in 0..6, h \in 0..23 :
               /\ temporalHeatmap[d * 24 + h + 1].day = d
               /\ temporalHeatmap[d * 24 + h + 1].hour = h
        /\ \A c \in 1..168 :
               /\ temporalHeatmap[c].txCount
                      = Cardinality({i \in 1..Len(transactions) : CellOf(i) = c - 1})
               /\ temporalHeatmap[c].intensity = Min(10, temporalHeatmap[c].txCount)
        /\ \A i \in 1..Len(transactions) : CellOf(i) \in 0..167
        /\ \A a, b \in 1..Len(transactions) :
               transactions[a].Age_seconds <= transactions[b].Age_seconds
                   => CellOf(a) <= CellOf(b)

\* the same without the order of the cells: what holds of every heatmap
C22_HeatmapCounts ==
    loaded =>
        /\ Len(temporalHeatmap) = 168
        /\ \A c \in 1..168 :
               /\ temporalHeatmap[c].txCount
                      = Cardinality({i \in 1..Len(transactions) : CellOf(i) = c - 1})
               /\ temporalHeatmap[c].intensity = Min(10, temporalHeatmap[c].txCount)
        /\ \A i \in 1..Len(transactions) : CellOf(i) \in 0..167

\* the oldest transaction is counted in the first cell, before a younger one
C22_OldestWraps ==
    /\ loaded
    /\ \E a, b \in 1..Len(transactions) :
           /\ transactions[a].Age_seconds < transactions[b].Age_seconds
           /\ CellOf(a) > 0
           /\ CellOf(b) = 0
           /\ temporalHeatmap[1].txCount >= 2


-----------------------------------------------------------------------------
(* C23: removePattern and the built-in patterns.                           *)

\* the current library lists every built-in pattern
BuiltInsPresent ==
    \A b \in 1..Len(BUILT_IN_PATTERNS) :
        \E i \in 1..Len(LibraryPatterns) :
            /\ LibraryPatterns[i].id = BUILT_IN_PATTERNS[b].id
            /\ LibraryPatterns[i].isBuiltIn

\* this step is a call of removePattern
RemoveStep == Len(libs') = Len(libs) + 1 /\ lastCall'.op = "removePattern"

\* s without its element at position i
WithoutAt(s, i) == [j \in 1..(Len(s) - 1) |-> IF j < i THEN s[j] ELSE s[j + 1]]

\* positions in the library passed in of the patterns with the id asked
AskedPositions ==
    {i \in 1..Len(LibraryPatterns) : LibraryPatterns[i].id = lastCall'.patternId}

\* the five built-in patterns stay in the library through every call
C23_BuiltInsStay == [][BuiltInsPresent /\ BuiltInsPresent']_vars

\* C23: through every sequence of calls the five built-in patterns stay in
\* the library; removePattern with a built-in or unknown id leaves the
\* pattern list as it was, and with a user-defined pattern's id removes
\* exactly that pattern.
C23_RemoveExactlyOne ==
    [][/\ BuiltInsPresent /\ BuiltInsPresent'
       /\ RemoveStep =>
             IF \E i \in AskedPositions : ~LibraryPatterns[i].isBuiltIn
             THEN \E i \in AskedPositions : LibraryPatterns' = WithoutAt(LibraryPatterns, i)
             ELSE LibraryPatterns' = LibraryPatterns]_vars

\* a removePattern call that takes two patterns out of the library
C23_RemovedTwo ==
    /\ lastCall.op = "removePattern"
    /\ heldLibrary # 0
    /\ Len(arrays[libs[heldLibrary].patterns]) = Len(BUILT_IN_PATTERNS)
    /\ Len(patterns) = Len(BUILT_IN_PATTERNS) + 2
    /\ patterns[Len(patterns)].id = lastCall.patternId
    /\ patterns[Len(patterns) - 1].id = lastCall.patternId


-----------------------------------------------------------------------------
(* C24: learning and the built-in prototypes of other libraries.           *)

\* the features, examples and confidence of a pattern are those of the
\* built-in pattern b as written in the source
IsOriginal(p, b) ==
    /\ p.features = BUILT_IN_PATTERNS[b].features
    /\ p.examples = <<>>
    /\ p.confidence = BUILT_IN_PATTERNS[b].confidence

\* the pattern objects a library lists, in array order
PatternsOf(l) ==
    [i \in 1..Len(arrays[libs[l].patterns]) |-> patterns[arrays[libs[l].patterns][i]]]

\* the built-in prototypes analyzeWalletWithAdaptiveGuard compares against
ComparedBuiltIns == [b \in 1..Len(BuiltInRefs) |-> patterns[BuiltInRefs[b]]]

\* C24: whatever was learned through another library, the library a separate
\* createPatternLibrary() call returns and the built-in prototypes the
\* analysis compares against have the original built-in features, no
\* examples and the original confidence.
C24_NoLeakThroughBuiltIns ==
    /\ lastCall.op = "createPatternLibrary" =>
           /\ Len(PatternsOf(lastCall.returned)) = Len(BUILT_IN_PATTERNS)
           /\ \A b \in 1..Len(BUILT_IN_PATTERNS) :
                  IsOriginal(PatternsOf(lastCall.returned)[b], b)
    /\ \A b \in 1..Len(BUILT_IN_PATTERNS) : IsOriginal(ComparedBuiltIns[b], b)

\* a library made after one confirmation of "Classic Fan-Out" through another
\* library lists that example
C24_FreshLibraryHasExample ==
    /\ lastCall.op = "createPatternLibrary"
    /\ lastCall.returned # patternLibrary
    /\ Len(PatternsOf(lastCall.returned)[1].examples) = 1


-----------------------------------------------------------------------------
(* C25: pathFromSeed of the expanded nodes.                                *)

\* position of the first node at hop distance d that is one hop before b
FirstParent(nodes, b, d, direction, txs) ==
    CHOOSE i \in 1..Len(nodes) :
        /\ nodes[i].hopDistance = d /\ OneHop(nodes[i].id, b, direction, txs)
        /\ \A j \in 1..(i - 1) :
               ~(nodes[j].hopDistance = d /\ OneHop(nodes[j].id, b, direction, txs))

\* C25: every node's pathFromSeed has hopDistance + 1 addresses, starts at a
\* seed, ends at the node and steps along filtered transactions in a
\* direction the expansion allows; the path is the one found first: that of
\* the earliest-found node one hop before it, extended by the node, and is
\* not replaced by a later path of equal or greater length.
C25_PathWitnessesDistance ==
    Expanded =>
       LET config == lastCall.config
           nodes  == lastCall.result.nodes
           txs    == FilteredTxs(config, transactions)
           dir    == config.expansionDirection
       IN \A i \in 1..Len(nodes) :
             LET path == nodes[i].pathFromSeed
             IN /\ Len(path) = nodes[i].hopDistance + 1
                /\ path[1] \in Range(config.seeds)
                /\ path[Len(path)] = nodes[i].id
                /\ \A h \in 1..(Len(path) - 1) : OneHop(path[h], path[h + 1], dir, txs)
                /\ nodes[i].hopDistance > 0 =>
                       path = Append(nodes[FirstParent(nodes, nodes[i].id,
                                                       nodes[i].hopDistance - 1, dir, txs)]
                                         .pathFromSeed,
                                     nodes[i].id)

\* a node two hops out that two nodes one hop out lead to: the path through
\* the one found first is kept
C25_Witness ==
    /\ Expanded
    /\ \E i, a, b \in 1..Len(lastCall.result.nodes) :
          LET nodes == lastCall.result.nodes
              txs   == FilteredTxs(lastCall.config, transactions)
              dir   == lastCall.config.expansionDirection
          IN /\ nodes[i].hopDistance = 2
             /\ a < b
             /\ nodes[a].hopDistance = 1 /\ OneHop(nodes[a].id, nodes[i].id, dir, txs)
             /\ nodes[b].hopDistance = 1 /\ OneHop(nodes[b].id, nodes[i].id, dir, txs)
             /\ nodes[i].pathFromSeed = Append(nodes[a].pathFromSeed, nodes[i].id)


-----------------------------------------------------------------------------
(* C30: the endpoints of the links.                                        *)

\* the hop distance of an address in the node list is at most d
NodeWithin(nodes, a, d) ==
    \E i \in 1..Len(nodes) : nodes[i].id = a /\ nodes[i].hopDistance <= d

\* C30: both endpoints of every link are within k hops of a seed and at
\* least one of them is within k - 1 hops; when the wallet map holds every
\* seed and every address of the transactions, both endpoints are nodes of
\* the result, with those hop distances.
C30_NoDanglingLink ==
    Expanded =>
       LET config == lastCall.config
           nodes  == lastCall.result.nodes
           links  == lastCall.result.links
           txs    == FilteredTxs(config, transactions)
           seeds  == Range(config.seeds)
           k      == config.kHops
           dir    == config.expansionDirection
           known  == {wallets[i].address : i \in 1..Len(wallets)}
       IN \A l \in 1..Len(links) :
             /\ links[l].source \in Within(k, seeds, dir, txs)
             /\ links[l].target \in Within(k, seeds, dir, txs)
             /\ k >= 1
             /\ \/ links[l].source \in Within(k - 1, seeds, dir, txs)
                \/ links[l].target \in Within(k - 1, seeds, dir, txs)
             /\ (seeds \subseteq known
                    /\ \A i \in 1..Len(transactions) :
                           {transactions[i].From, transactions[i].To} \subseteq known)
                => /\ NodeWithin(nodes, links[l].source, k)
                   /\ NodeWithin(nodes, links[l].target, k)
                   /\ \/ NodeWithin(nodes, links[l].source, k - 1)
                      \/ NodeWithin(nodes, links[l].target, k - 1)

\* a link that ends at a node exactly k hops out, all seeds being wallets
C30_Witness ==
    /\ Expanded
    /\ Range(lastCall.config.seeds) \subseteq {wallets[i].address : i \in 1..Len(wallets)}
    /\ \E l \in 1..Len(lastCall.result.links) :
          \E i \in 1..Len(lastCall.result.nodes) :
             /\ lastCall.result.nodes[i].id = lastCall.result.links[l].target
             /\ lastCall.result.nodes[i].hopDistance = lastCall.config.kHops
             /\ NodeWithin(lastCall.result.nodes, lastCall.result.links[l].source,
                           lastCall.config.kHops - 1)


-----------------------------------------------------------------------------
(* C26: the weight of the previous feature values.                         *)

\* C26: when a confirmed wallet is folded into a prototype the library
\* already has, built-in prototypes receiving their first example included,
\* the weight 1 / (examples after the append) is below 1, and a numeric
\* feature whose old value is not the wallet's value (they differ by more
\* than the last digit kept) does not become the wallet's value.
C26_OldValuesKeepWeight ==
    [][ (FlagStep /\ NamedBefore # 0) =>
          LET ref == arrays[libs[patternLibrary].patterns][NamedBefore]
              old == patterns[ref]
              new == patterns'[ref]
              wf  == extractWalletFeatures(WalletAt(lastCall'.wallet), transactions)
          IN /\ Len(new.examples) > 1
             /\ \A f \in NumericFeatures :
                   (old.features[f] - wf[f] > 1 \/ wf[f] - old.features[f] > 1)
                       => new.features[f] # wf[f]
      ]_vars

\* what holds instead: the old values keep a weight from the second example on
C26_BlendFromSecondExample ==
    [][ (FlagStep /\ NamedBefore # 0) =>
          LET ref == arrays[libs[patternLibrary].patterns][NamedBefore]
              old == patterns[ref]
              new == patterns'[ref]
              wf  == extractWalletFeatures(WalletAt(lastCall'.wallet), transactions)
          IN IF old.examples = <<>>
             THEN \A f \in NumericFeatures : new.features[f] = wf[f]
             ELSE \A f \in NumericFeatures :
                      (old.features[f] - wf[f] > 1 \/ wf[f] - old.features[f] > 1)
                          => new.features[f] # wf[f]
      ]_vars

\* a built-in prototype after its first confirmed example: its numeric
\* features are the wallet's
C26_BuiltInReplaced ==
    /\ Flagged
    /\ lastCall.patternName = "Classic Fan-Out"
    /\ Len(patterns[1].examples) = 1
    /\ \A f \in NumericFeatures :
          patterns[1].features[f]
              = extractWalletFeatures(WalletAt(lastCall.wallet), transactions)[f]
    /\ patterns[1].features.avgFanOut # BUILT_IN_PATTERNS[1].features.avgFanOut


-----------------------------------------------------------------------------
(* C27: a user-defined prototype is the mean of its confirmed wallets.     *)

\* the extracted features of the wallets confirmed for a pattern, in order
ConfirmedFeatures(p) ==
    [e \in 1..Len(p.examples) |->
        extractWalletFeatures(WalletAt(p.examples[e].walletAddress), transactions)]

\* value is the mean of the values of feature f over fs, to the digits kept:
\* each of the n - 1 folds drops less than one unit of the last digit
IsMeanOf(value, fs, f) ==
    LET n   == Len(fs)
        sum == SeqSum([e \in 1..n |-> fs[e][f]])
    IN /\ n * value <= sum
       /\ sum - n * value <= n * (n - 1)

\* C27: every pattern created by addFlaggedExample has, after any further
\* confirmations under its name, numeric features equal to the arithmetic
\* mean of the features of its confirmed wallets, whatever their order,
\* boolean features equal to the OR and txCountRange equal to the min and
\* max over those wallets.
C27_PrototypeIsMean ==
    \A i \in 1..Len(LibraryPatterns) :
        LET p  == LibraryPatterns[i]
            fs == ConfirmedFeatures(p)
            n  == Len(fs)
        IN ~p.isBuiltIn =>
              /\ n >= 1
              /\ \A f \in NumericFeatures : IsMeanOf(p.features[f], fs, f)
              /\ p.features.hasPeelingChain = (\E e \in 1..n : fs[e].hasPeelingChain)
              /\ p.features.hasRapidBurst = (\E e \in 1..n : fs[e].hasRapidBurst)
              /\ \A e \in 1..n : p.features.txCountRange.min <= fs[e].txCountRange.min
              /\ \E e \in 1..n : p.features.txCountRange.min = fs[e].txCountRange.min
              /\ \A e \in 1..n : p.features.txCountRange.max >= fs[e].txCountRange.max
              /\ \E e \in 1..n : p.features.txCountRange.max = fs[e].txCountRange.max

\* a user-defined pattern of three confirmations of two wallets whose fan-out
\* differs, the odd one confirmed last
C27_Witness ==
    \E i \in 1..Len(LibraryPatterns) :
        LET p  == LibraryPatterns[i]
            fs == ConfirmedFeatures(p)
        IN /\ ~p.isBuiltIn
           /\ Len(fs) = 3
           /\ fs[1].avgFanOut = fs[2].avgFanOut
           /\ fs[3].avgFanOut > fs[1].avgFanOut + 12 \/ fs[1].avgFanOut > fs[3].avgFanOut + 12


-----------------------------------------------------------------------------
(* C28: a wallet matches the pattern created from it.                      *)

\* the last call was addFlaggedExample and created the pattern it names
CreatedPattern ==
    /\ Flagged
    /\ LibraryPatterns # <<>>
    /\ LET p == LibraryPatterns[Len(LibraryPatterns)]
       IN /\ ~p.isBuiltIn
          /\ p.name = lastCall.patternName
          /\ Len(p.examples) = 1

\* this step analyses the wallet of the last learning call
ReanalysisStep ==
    /\ lastCall'.op = "analyzeWalletWithAdaptiveGuard"
    /\ lastCall'.wallet = lastCall.wallet

\* C28: when addFlaggedExample has created a new pattern from a wallet, the
\* analysis of that wallet with the same transactions and the returned
\* library lists the new pattern among matchedPatterns with similarity
\* exactly 1, and the wallet is not a zero-day candidate.
C28_SelfSimilarityIsOne ==
    [][ (CreatedPattern /\ ReanalysisStep) =>
          LET p == LibraryPatterns[Len(LibraryPatterns)]
              matched == lastCall'.result.matchedPatterns
          IN /\ \E m \in 1..Len(matched) :
                    /\ matched[m].patternId = p.id
                    /\ matched[m].patternName = p.name
                    /\ matched[m].similarity = 100000
             /\ ~lastCall'.result.isZeroDayCandidate
      ]_vars

\* the analysis of a wallet of suspicion score 50 or more whose only full
\* match is the pattern created from it
C28_Witness ==
    /\ Analyzed
    /\ WalletAt(lastCall.wallet).suspicionScore >= 50
    /\ ~lastCall.result.isZeroDayCandidate
    /\ \E i \in 1..Len(LibraryPatterns) :
          /\ ~LibraryPatterns[i].isBuiltIn
          /\ Len(LibraryPatterns[i].examples) = 1
          /\ LibraryPatterns[i].examples[1].walletAddress = lastCall.wallet
          /\ \A m \in 1..Len(lastCall.result.matchedPatterns) :
                lastCall.result.matchedPatterns[m].similarity = 100000
                    <=> lastCall.result.matchedPatterns[m].patternId = LibraryPatterns[i].id
          /\ lastCall.result.matchedPatterns[1].patternId = LibraryPatterns[i].id


-----------------------------------------------------------------------------
(* C29: confidence, examples and names through the library calls.          *)

\* position in a pattern list of the pattern with the name, or 0
NamedIn(ps, name) ==
    IF \E i \in 1..Len(ps) : ps[i].name = name
    THEN CHOOSE i \in 1..Len(ps) : ps[i].name = name
    ELSE 0

\* every confidence of the library is in [0.5, 0.95] and no name occurs twice
ConfidencesAndNamesOk(ps) ==
    /\ \A i \in 1..Len(ps) : ps[i].confidence >= 50 /\ ps[i].confidence <= 95
    /\ \A i, j \in 1..Len(ps) : ps[i].name = ps[j].name => i = j

\* C29: from createPatternLibrary() on and through every addFlaggedExample
\* and removePattern call, every pattern's confidence is in [0.5, 0.95] and no
\* two patterns of the library share a name; from one call to the next a
\* pattern's confidence does not decrease and its example list only grows.
C29_ConfidenceAndNames ==
    [][/\ ConfidencesAndNamesOk(LibraryPatterns)
       /\ ConfidencesAndNamesOk(LibraryPatterns')
       /\ \A i \in 1..Len(LibraryPatterns) :
             LET p == LibraryPatterns[i]
                 j == NamedIn(LibraryPatterns', p.name)
             IN j # 0 =>
                   LET q == LibraryPatterns'[j]
                   IN /\ q.confidence >= p.confidence
                      /\ Len(q.examples) >= Len(p.examples)
                      /\ SubSeq(q.examples, 1, Len(p.examples)) = p.examples]_vars

\* a built-in pattern held at 0.95 by the cap at its second confirmation
C29_Witness ==
    /\ \E i \in 1..Len(LibraryPatterns) :
          /\ LibraryPatterns[i].isBuiltIn
          /\ LibraryPatterns[i].confidence = 95
          /\ Len(LibraryPatterns[i].examples) = 2
    /\ lastCall.op \in {"addFlaggedExample", "removePattern"}

====
